---- MODULE Spec2Model ----
(***************************************************************************)
(* A model of the process widget of bottom                                 *)
(* (src/app/widgets/process_table.rs): the view facade ProcWidget, its     *)
(* mutators, and the three refresh paths (Normal, Grouped, Tree).          *)
(*                                                                         *)
(* Strings that the code builds (the tree prefixes) are sequences of       *)
(* one-character strings, so that concatenation, join("") and "ends with"  *)
(* are what they are in the code.  The box-drawing characters of the       *)
(* source are written with ASCII stand-ins (see BRANCH_END and friends).   *)
(***************************************************************************)
EXTENDS Integers, Sequences, FiniteSets, TLC

(***************************************************************************)
(* Bounds of the model.                                                    *)
(***************************************************************************)
\* Pids of a snapshot are drawn from 1..MaxPid.
MaxPid == 4

\* The most sensors a harvest of temperatures reads.
MaxSensors == 3

Pids == 1 .. MaxPid

\* Process names and command lines are drawn from these words; a query text
\* is a letter, and matches the words that contain it.
Labels == {"a", "ab", "b"}

\* The words of the snapshots of Tree mode, where only "matches or not" counts.
TreeLabels == {"a", "b"}

\* Query texts handed to update_query: blank, two that parse, one that does not.
QueryTexts == {"", "a", "b", "("}

(***************************************************************************)
(* Program constants.                                                      *)
(***************************************************************************)
PID_OR_COUNT == 0
PROC_NAME_OR_CMD == 1
CPU == 2
MEM == 3
RPS == 4
WPS == 5
T_READ == 6
T_WRITE == 7
USER == 8
STATE_IDX == 9

ColumnIndexes == PID_OR_COUNT .. STATE_IDX

\* '└', '│', '├', '─' in the source.
BRANCH_END == "L"
BRANCH_VERTICAL == "|"
BRANCH_SPLIT == "T"
BRANCH_HORIZONTAL == "-"

\* Option: None is the empty sequence, Some(x) the sequence of x alone.
None == << >>

Some(x) == <<x>>

(***************************************************************************)
(* Generic helpers: maps with a partial domain (FxHashMap), sequences.     *)
(***************************************************************************)
EmptyMap == << >>

\* FxHashMap::insert: the new value replaces an old one.
MapInsert(m, k, v) == (k :> v) @@ m

Range(s) == {s[i] : i \in DOMAIN s}

Last(s) == s[Len(s)]

Front(s) == SubSeq(s, 1, Len(s) - 1)

RECURSIVE Reverse(_)
Reverse(s) == IF s = << >> THEN << >> ELSE Append(Reverse(Tail(s)), Head(s))

\* The elements of a finite set of integers in ascending order.
RECURSIVE SetToSeq(_)
SetToSeq(S) ==
    IF S = {} THEN << >>
    ELSE LET m == CHOOSE x \in S : \A y \in S : x <= y
         IN  <<m>> \o SetToSeq(S \ {m})

\* All orderings of a finite set, as sequences without repetition.
RECURSIVE Orderings(_)
Orderings(S) ==
    IF S = {} THEN {<< >>}
    ELSE UNION {{<<x>> \o s : s \in Orderings(S \ {x})} : x \in S}

RECURSIVE SumSeq(_)
SumSeq(s) == IF s = << >> THEN 0 ELSE Head(s) + SumSeq(Tail(s))

(***************************************************************************)
(* The data the widget consumes and produces.                              *)
(***************************************************************************)
\* One harvested process (ProcessHarvest).  cpu and the two memory figures
\* are fixed by the pid: cpu has ties and runs against the pid order, and
\* mem_usage_bytes is a power of two, so that a sum of it names its summands.
ProcessHarvest(pid, name, command) ==
    [pid |-> pid, name |-> name, command |-> command,
     cpu_usage_percent |-> 2 - (pid % 2),
     mem_usage_percent |-> pid,
     mem_usage_bytes |-> 2 ^ (pid - 1)]

\* ProcessHarvest::add: the numeric fields are summed, the identity is kept.
HarvestAdd(a, b) ==
    [a EXCEPT !.cpu_usage_percent = @ + b.cpu_usage_percent,
              !.mem_usage_percent = @ + b.mem_usage_percent,
              !.mem_usage_bytes = @ + b.mem_usage_bytes]

\* ProcWidgetData::from_data: one display row of one process.
from_data(process, is_using_command, is_mem_percent) ==
    [pid |-> process.pid,
     id |-> IF is_using_command THEN process.command ELSE process.name,
     cpu |-> process.cpu_usage_percent,
     mem |-> IF is_mem_percent THEN process.mem_usage_percent
             ELSE process.mem_usage_bytes,
     prefix |-> None,
     disabled |-> FALSE,
     num_similar |-> 1]

\* ProcWidgetData::add: the numeric fields of `other` are added to `row`.
RowAdd(row, other) ==
    [row EXCEPT !.cpu = @ + other.cpu, !.mem = @ + other.mem]

\* The query engine: parse_query fails on "(" and otherwise yields a handle.
parse_query(text) ==
    IF text = "(" THEN [ok |-> FALSE, err |-> "parse error"]
    ELSE [ok |-> TRUE, query |-> [text |-> text]]

\* The letters of a word.
Letters(label) == IF label = "ab" THEN {"a", "b"} ELSE {label}

\* Query::check: the handle matches a process whose name contains the text of
\* the query, or whose command does when the widget shows commands.
check(query, process, is_using_command) ==
    query.text \in Letters(IF is_using_command THEN process.command ELSE process.name)

(***************************************************************************)
(* The sort dispatcher of the table columns.                               *)
(***************************************************************************)
\* The place of a word in the lexicographic order.
LabelRank(label) == IF label = "a" THEN 1 ELSE IF label = "ab" THEN 2 ELSE 3

\* The field a column compares two rows on.
SortKey(inner, row) ==
    CASE inner = "Pid" -> row.pid
      [] inner = "Count" -> row.num_similar
      [] inner \in {"Name", "Command"} -> LabelRank(row.id)
      [] inner = "CpuPercent" -> row.cpu
      [] inner \in {"MemoryPercent", "MemoryVal"} -> row.mem
      [] OTHER -> 0

\* Whether row x sorts strictly before row y.
SortsBefore(inner, sort_order, x, y) ==
    IF sort_order = "Ascending" THEN SortKey(inner, x) < SortKey(inner, y)
    ELSE SortKey(inner, x) > SortKey(inner, y)

\* Stable insertion of x into the sorted sequence s: before the first row
\* that x sorts strictly before, so rows of equal key keep their order.
RECURSIVE StableInsert(_, _, _, _)
StableInsert(inner, sort_order, s, x) ==
    IF s = << >> THEN <<x>>
    ELSE IF SortsBefore(inner, sort_order, x, Head(s)) THEN <<x>> \o s
    ELSE <<Head(s)>> \o StableInsert(inner, sort_order, Tail(s), x)

RECURSIVE SortFrom(_, _, _, _)
SortFrom(inner, sort_order, sorted, rest) ==
    IF rest = << >> THEN sorted
    ELSE SortFrom(inner, sort_order,
                  StableInsert(inner, sort_order, sorted, Head(rest)), Tail(rest))

\* SortColumn::sort_by: a stable sort of the rows by the column, in the order.
sort_by(inner, rows, sort_order) == SortFrom(inner, sort_order, << >>, rows)

(***************************************************************************)
(* The state of the widget (struct ProcWidget), of the data it reads       *)
(* (DataCollection) and of a refresh in progress (the locals of            *)
(* get_tree_data and the position in it).                                  *)
(***************************************************************************)
VARIABLES
    mode,                 \* "Normal", "Grouped" or "Tree"
    collapsed_pids,       \* ProcWidgetMode::Tree { collapsed_pids }
    columns,              \* table.columns: index -> [inner, is_hidden, default_order]
    sort_index,           \* table.sort_index()
    order,                \* table.order()
    current_index,        \* table.state.current_index
    display_start_index,  \* table.state.display_start_index
    search_state,         \* proc_search.search_state
    table_data,           \* the stored rows
    id_pid_map,           \* grouping key -> pids of the group
    is_sort_open,
    force_rerender,
    force_update_data,
    data_collection,      \* [process_harvest, process_parent_mapping, orphan_pids]
    pc,                   \* "idle", "phase1", "phase2" or "done"
    kept_pids,
    visited_pids,
    filtered_tree,
    stack,
    data,
    prefixes,
    length_stack,
    temperature_vec,      \* the Vec<TempData> of get_temperature_data
    temperature_pc        \* "idle", "harvested", "sorted_by_temperature" or "returned"

table_vars == <<columns, sort_index, order, current_index, display_start_index>>

flag_vars == <<is_sort_open, force_rerender, force_update_data>>

tree_vars == <<kept_pids, visited_pids, filtered_tree, stack, data, prefixes, length_stack>>

temperature_vars == <<temperature_vec, temperature_pc>>

vars == <<mode, collapsed_pids, table_vars, search_state, table_data, id_pid_map,
          flag_vars, data_collection, pc, tree_vars, temperature_vars>>

(***************************************************************************)
(* Construction.                                                           *)
(***************************************************************************)
\* SortColumn::new / soft / hard, with default_descending where it is called.
SortColumn(inner, default_order) ==
    [inner |-> inner, is_hidden |-> FALSE, default_order |-> default_order]

\* The column list of new_process_table.
new_columns(is_count, is_command, show_memory_as_values) ==
    [i \in ColumnIndexes |->
        CASE i = PID_OR_COUNT ->
                 SortColumn(IF is_count THEN "Count" ELSE "Pid", "Ascending")
          [] i = PROC_NAME_OR_CMD ->
                 SortColumn(IF is_command THEN "Command" ELSE "Name", "Ascending")
          [] i = CPU -> SortColumn("CpuPercent", "Descending")
          [] i = MEM ->
                 SortColumn(IF show_memory_as_values THEN "MemoryVal"
                            ELSE "MemoryPercent", "Descending")
          [] i = RPS -> SortColumn("ReadPerSecond", "Descending")
          [] i = WPS -> SortColumn("WritePerSecond", "Descending")
          [] i = T_READ -> SortColumn("TotalRead", "Descending")
          [] i = T_WRITE -> SortColumn("TotalWrite", "Descending")
          [] i = USER -> SortColumn("User", "Ascending")
          [] OTHER -> SortColumn("State", "Ascending")]

\* The sort index and order new_process_table starts with.
default_index(m) == IF m = "Tree" THEN PID_OR_COUNT ELSE CPU

default_order(m) == IF m = "Tree" THEN "Ascending" ELSE "Descending"

\* AppSearchState::default().
DefaultSearchState ==
    [current_search_query |-> "", query |-> None, is_blank_search |-> TRUE,
     is_invalid_search |-> FALSE, error_message |-> None, grapheme_cursor |-> 0]

\* ProcWidget::new, for a mode and the two display options of the config.
new(m, is_command, show_memory_as_values) ==
    /\ mode = m
    /\ collapsed_pids = {}
    /\ columns = new_columns(m = "Grouped", is_command, show_memory_as_values)
    /\ sort_index = default_index(m)
    /\ order = default_order(m)
    /\ current_index = 0
    /\ display_start_index = 0
    /\ search_state = DefaultSearchState
    /\ table_data = << >>
    /\ id_pid_map = EmptyMap
    /\ is_sort_open = FALSE
    /\ force_rerender = TRUE
    /\ force_update_data = FALSE

\* No refresh has run: the locals of get_tree_data do not exist yet.
NoRefresh ==
    /\ pc = "idle"
    /\ kept_pids = EmptyMap
    /\ visited_pids = EmptyMap
    /\ filtered_tree = EmptyMap
    /\ stack = << >>
    /\ data = << >>
    /\ prefixes = << >>
    /\ length_stack = << >>

\* get_temperature_data has not been called.
NoHarvest ==
    /\ temperature_vec = << >>
    /\ temperature_pc = "idle"

(***************************************************************************)
(* Snapshots of the harvester.  A forest over the pids 1..n is given by a  *)
(* parent map (0: no parent in the snapshot); the child lists and the      *)
(* orphan list are in ascending pid order.  A snapshot may carry one       *)
(* dangling reference: a pid without a record (n + 1) that is named last   *)
(* in the child list of `under`, or last in the orphan list (under = 0).   *)
(***************************************************************************)
ParentMaps(n) == {par \in [1 .. n -> 0 .. n] : \A p \in 1 .. n : par[p] < p}

NoDangling == [pid |-> 0, under |-> 0]

Danglings(n) ==
    {NoDangling} \cup
    (IF n < MaxPid THEN {[pid |-> n + 1, under |-> q] : q \in 0 .. n} ELSE {})

ChildList(n, par, dangling, q) ==
    SetToSeq({p \in 1 .. n : par[p] = q})
        \o (IF dangling.pid # 0 /\ dangling.under = q THEN <<dangling.pid>> ELSE << >>)

Snapshot(n, par, names, commands, dangling) ==
    [process_harvest |->
        [p \in 1 .. n |-> ProcessHarvest(p, names[p], commands[p])],
     process_parent_mapping |->
        [q \in {q \in 1 .. n : ChildList(n, par, dangling, q) # << >>} |->
            ChildList(n, par, dangling, q)],
     orphan_pids |-> ChildList(n, par, dangling, 0),
     values_order |-> SetToSeq(1 .. n)]

(***************************************************************************)
(* Accessors.                                                              *)
(***************************************************************************)
is_using_command == columns[PROC_NAME_OR_CMD].inner = "Command"

is_mem_percent == columns[MEM].inner = "MemoryPercent"

\* AppSearchState::is_invalid_or_blank_search, as get_query calls it.
is_invalid_or_blank_search ==
    search_state.is_blank_search \/ search_state.is_invalid_search

\* The query the rows are filtered with: None stands for "no filtering".
\* (The mutant hands out the stored query unless the search is blank.)
get_query_unless_blank ==
    IF search_state.is_blank_search THEN None ELSE search_state.query

get_query ==
    IF is_invalid_or_blank_search THEN None ELSE search_state.query

\* search_query.as_ref().map(|q| q.check(process, ..)).unwrap_or(true)
Matches(process) ==
    IF get_query = None THEN TRUE ELSE check(get_query[1], process, is_using_command)

\* (The mutant hands the rows over back to front, so that rows of equal key
\* come out in the opposite of their input order.)
try_sort_back_to_front(rows) ==
    IF sort_index \in DOMAIN columns
    THEN sort_by(columns[sort_index].inner, Reverse(rows), order)
    ELSE rows

try_sort(rows) ==
    IF sort_index \in DOMAIN columns
    THEN sort_by(columns[sort_index].inner, rows, order)
    ELSE rows

\* (The mutant sorts in the table's order, as try_sort does.)
try_rev_sort_forward(rows) ==
    IF sort_index \in DOMAIN columns
    THEN sort_by(columns[sort_index].inner, rows, order)
    ELSE rows

try_rev_sort(rows) ==
    IF sort_index \in DOMAIN columns
    THEN sort_by(columns[sort_index].inner, rows,
                 IF order = "Ascending" THEN "Descending" ELSE "Ascending")
    ELSE rows

process_harvest == data_collection.process_harvest

process_parent_mapping == data_collection.process_parent_mapping

orphan_pids == data_collection.orphan_pids

\* pids.iter().filter_map(|pid| process_harvest.get(pid)): the pids that have
\* a record, in order.
Harvested(pids) == SelectSeq(pids, LAMBDA pid : pid \in DOMAIN process_harvest)

\* The display rows of the pids that have a record, in order.
RowsOf(pids) ==
    LET present == Harvested(pids)
    IN  [i \in 1 .. Len(present) |->
            from_data(process_harvest[present[i]], is_using_command, is_mem_percent)]

(***************************************************************************)
(* get_tree_data, phase 1: the filtered parent-to-children map.  The stack *)
(* holds the pids of the processes the code's stack refers to.             *)
(***************************************************************************)
\* Entry of get_tree_data: kept_pids and the seeded stack.
get_tree_data ==
    /\ pc \in {"idle", "done"}
    /\ mode = "Tree"
    /\ kept_pids' = [pid \in DOMAIN process_harvest |-> Matches(process_harvest[pid])]
    /\ visited_pids' = EmptyMap
    /\ filtered_tree' = EmptyMap
    /\ stack' = Harvested(orphan_pids)
    /\ data' = << >>
    /\ prefixes' = << >>
    /\ length_stack' = << >>
    /\ pc' = "phase1"
    /\ UNCHANGED <<mode, collapsed_pids, table_vars, search_state, table_data,
                   id_pid_map, flag_vars, data_collection, temperature_vars>>

\* kept_pids.get(&pid).unwrap_or(&false)
is_kept(pid) == IF pid \in DOMAIN kept_pids THEN kept_pids[pid] ELSE FALSE

\* A process with a child list is shown iff it matches or a child is shown.
\* (The mutant forgets the children.)
is_shown_matching_only(pid, shown_children) == is_kept(pid)

is_shown(pid, shown_children) == is_kept(pid) \/ shown_children # << >>

\* What the phase-1 steps leave alone.
Phase1Frame ==
    UNCHANGED <<mode, collapsed_pids, table_vars, search_state, table_data,
                id_pid_map, flag_vars, data_collection, temperature_vars, pc, kept_pids, data,
                prefixes, length_stack>>

\* The top process has a child list and every child has a verdict: record the
\* verdict of the process, and its shown children if it is shown; pop it.
Phase1Verdict ==
    /\ pc = "phase1"
    /\ stack # << >>
    /\ LET pid == Last(stack)
       IN  /\ pid \in DOMAIN process_parent_mapping
           /\ \A child \in Range(process_parent_mapping[pid]) :
                  child \in DOMAIN visited_pids
           /\ LET shown_children ==
                      SelectSeq(process_parent_mapping[pid],
                                LAMBDA child : child \in DOMAIN visited_pids
                                               /\ visited_pids[child])
              IN  /\ visited_pids' =
                         MapInsert(visited_pids, pid, is_shown(pid, shown_children))
                  /\ filtered_tree' =
                         IF is_shown(pid, shown_children)
                         THEN MapInsert(filtered_tree, pid, Harvested(shown_children))
                         ELSE filtered_tree
           /\ stack' = Front(stack)
    /\ Phase1Frame

\* The top process has a child list and some child has no verdict: push the
\* children that have a record, reversed; the process stays on the stack.
Phase1PushChildren ==
    /\ pc = "phase1"
    /\ stack # << >>
    /\ LET pid == Last(stack)
       IN  /\ pid \in DOMAIN process_parent_mapping
           /\ \E child \in Range(process_parent_mapping[pid]) :
                  child \notin DOMAIN visited_pids
           /\ stack' = stack \o Reverse(Harvested(process_parent_mapping[pid]))
    /\ UNCHANGED <<visited_pids, filtered_tree>>
    /\ Phase1Frame

\* The top process has no child list: it is shown iff it matches; pop it.
\* (The first mutant pops it without recording a verdict; the second records
\* the verdict "shown" whether or not it matches.)
Phase1LeafNoVerdict ==
    /\ pc = "phase1"
    /\ stack # << >>
    /\ LET pid == Last(stack)
       IN  /\ pid \notin DOMAIN process_parent_mapping
           /\ filtered_tree' =
                  IF is_kept(pid) THEN MapInsert(filtered_tree, pid, << >>)
                  ELSE filtered_tree
           /\ visited_pids' = visited_pids
           /\ stack' = Front(stack)
    /\ Phase1Frame

Phase1LeafVerdictShown ==
    /\ pc = "phase1"
    /\ stack # << >>
    /\ LET pid == Last(stack)
       IN  /\ pid \notin DOMAIN process_parent_mapping
           /\ filtered_tree' =
                  IF is_kept(pid) THEN MapInsert(filtered_tree, pid, << >>)
                  ELSE filtered_tree
           /\ visited_pids' = MapInsert(visited_pids, pid, TRUE)
           /\ stack' = Front(stack)
    /\ Phase1Frame

Phase1Leaf ==
    /\ pc = "phase1"
    /\ stack # << >>
    /\ LET pid == Last(stack)
       IN  /\ pid \notin DOMAIN process_parent_mapping
           /\ filtered_tree' =
                  IF is_kept(pid) THEN MapInsert(filtered_tree, pid, << >>)
                  ELSE filtered_tree
           /\ visited_pids' = MapInsert(visited_pids, pid, is_kept(pid))
           /\ stack' = Front(stack)
    /\ Phase1Frame

(***************************************************************************)
(* get_tree_data, phase 2: the rows, depth first.  The stack now holds     *)
(* rows (ProcWidgetData).                                                  *)
(***************************************************************************)
\* The phase-1 loop has ended: seed the emission stack with the shown orphans.
Phase2Seed ==
    /\ pc = "phase1"
    /\ stack = << >>
    /\ LET roots == try_sort(RowsOf(SelectSeq(orphan_pids,
                        LAMBDA pid : pid \in DOMAIN filtered_tree)))
       IN  /\ stack' = roots
           /\ length_stack' = <<Len(roots)>>
    /\ data' = << >>
    /\ prefixes' = << >>
    /\ pc' = "phase2"
    /\ UNCHANGED <<mode, collapsed_pids, table_vars, search_state, table_data,
                   id_pid_map, flag_vars, data_collection, temperature_vars, kept_pids,
                   visited_pids, filtered_tree>>

\* `*siblings_left -= 1` on a usize: below zero it panics in a debug build and
\* wraps in a release build; -1 stands for either.
usize_dec(n) == IF n > 0 THEN n - 1 ELSE -1

\* prefixes.join("")
RECURSIVE Join(_)
Join(fragments) ==
    IF fragments = << >> THEN << >> ELSE Head(fragments) \o Join(Tail(fragments))

\* The inner loop of a collapsed row: every row of the queue, and every shown
\* descendant of it, is added to `summed`.
\* (The mutant adds the rows of the queue and does not go below them.)
SumQueueChildrenOnly(sum_queue, summed) ==
    IF sum_queue = << >> THEN summed
    ELSE RowAdd(summed, Last(sum_queue))

RECURSIVE SumQueue(_, _)
SumQueue(sum_queue, summed) ==
    IF sum_queue = << >> THEN summed
    ELSE LET process == Last(sum_queue)
             more == IF process.pid \in DOMAIN filtered_tree
                     THEN RowsOf(filtered_tree[process.pid])
                     ELSE << >>
         IN  SumQueue(Front(sum_queue) \o more, RowAdd(summed, process))

\* The row of a collapsed process: itself plus its shown descendants.
SummedProcess(process) ==
    IF process.pid \in DOMAIN filtered_tree
    THEN SumQueue(RowsOf(filtered_tree[process.pid]), process)
    ELSE process

\* The loop that ends an iteration: pop the sibling counters that reached
\* zero, and a prefix fragment with each (if there is one).
\* (The mutant pops one exhausted counter at most.)
PopExhaustedOnce(lengths, fragments) ==
    IF lengths # << >> /\ Last(lengths) = 0
    THEN <<Front(lengths), IF fragments = << >> THEN fragments ELSE Front(fragments)>>
    ELSE <<lengths, fragments>>

RECURSIVE PopExhausted(_, _)
PopExhausted(lengths, fragments) ==
    IF lengths # << >> /\ Last(lengths) = 0
    THEN PopExhausted(Front(lengths),
                      IF fragments = << >> THEN fragments ELSE Front(fragments))
    ELSE <<lengths, fragments>>

\* The branch glyph of a row.
Branch(is_last) == IF is_last THEN BRANCH_END ELSE BRANCH_SPLIT

\* The prefix of a collapsed row.
CollapsedPrefix(is_last) ==
    IF prefixes = << >> THEN <<"+", " ">>
    ELSE Join(prefixes) \o <<Branch(is_last), BRANCH_HORIZONTAL, " ", "+", " ">>

\* The prefix of an expanded row.
ExpandedPrefix(is_last) ==
    IF prefixes = << >> THEN << >>
    ELSE Join(prefixes) \o <<Branch(is_last), BRANCH_HORIZONTAL, " ">>

\* The fragment pushed for the children of an expanded row.
\* (The mutant pushes the blank fragment below the root level whether or not
\* the row is the last of its siblings.)
ChildFragmentAlwaysBlank(is_last) ==
    IF prefixes = << >> THEN << >>
    ELSE <<" ", " ", " ">>

ChildFragment(is_last) ==
    IF prefixes = << >> THEN << >>
    ELSE IF is_last THEN <<" ", " ", " ">>
    ELSE <<BRANCH_VERTICAL, " ", " ">>

\* The rows pushed for the children of an expanded row: its shown children,
\* in reverse sort order.  (The mutant takes the children from the snapshot's
\* child list instead of the filtered one.)
PushedChildrenUnfiltered(process) ==
    IF process.pid \in DOMAIN process_parent_mapping
    THEN try_rev_sort(RowsOf(process_parent_mapping[process.pid]))
    ELSE << >>

PushedChildren(process) == try_rev_sort(RowsOf(filtered_tree[process.pid]))

\* What the phase-2 steps leave alone.
Phase2Frame ==
    UNCHANGED <<mode, collapsed_pids, table_vars, search_state, table_data,
                id_pid_map, flag_vars, data_collection, temperature_vars, pc, kept_pids,
                visited_pids, filtered_tree>>

\* One iteration on a process in collapsed_pids: one row that sums it and its
\* shown descendants; nothing is pushed.
Phase2Collapsed ==
    /\ pc = "phase2"
    /\ stack # << >>
    /\ length_stack # << >>
    /\ LET process == Last(stack)
           siblings_left == usize_dec(Last(length_stack))
           disabled == ~is_kept(process.pid)
           is_last == siblings_left = 0
           popped == PopExhausted(
                         [length_stack EXCEPT ![Len(length_stack)] = siblings_left],
                         prefixes)
       IN  /\ process.pid \in collapsed_pids
           /\ data' = Append(data, [SummedProcess(process) EXCEPT
                                        !.prefix = Some(CollapsedPrefix(is_last)),
                                        !.disabled = disabled])
           /\ stack' = Front(stack)
           /\ length_stack' = popped[1]
           /\ prefixes' = popped[2]
    /\ Phase2Frame

\* One iteration on a process not in collapsed_pids: its own row, and its
\* shown children pushed in reverse sort order.  (The mutant marks no row
\* disabled.)
Phase2ExpandedNeverDisabled ==
    /\ pc = "phase2"
    /\ stack # << >>
    /\ length_stack # << >>
    /\ LET process == Last(stack)
           siblings_left == usize_dec(Last(length_stack))
           disabled == FALSE
           is_last == siblings_left = 0
           has_children == process.pid \in DOMAIN filtered_tree
           children == IF has_children THEN PushedChildren(process) ELSE << >>
           lengths == [length_stack EXCEPT ![Len(length_stack)] = siblings_left]
           popped == IF has_children
                     THEN PopExhausted(Append(lengths, Len(children)),
                                       Append(prefixes, ChildFragment(is_last)))
                     ELSE PopExhausted(lengths, prefixes)
       IN  /\ process.pid \notin collapsed_pids
           /\ data' = Append(data, [process EXCEPT
                                        !.prefix = Some(ExpandedPrefix(is_last)),
                                        !.disabled = disabled])
           /\ stack' = Front(stack) \o children
           /\ length_stack' = popped[1]
           /\ prefixes' = popped[2]
    /\ Phase2Frame

\* (A further mutant puts the children beneath the rows that wait on the
\* emission stack instead of on top of them.)
Phase2ExpandedChildrenBeneath ==
    /\ pc = "phase2"
    /\ stack # << >>
    /\ length_stack # << >>
    /\ LET process == Last(stack)
           siblings_left == usize_dec(Last(length_stack))
           disabled == ~is_kept(process.pid)
           is_last == siblings_left = 0
           has_children == process.pid \in DOMAIN filtered_tree
           children == IF has_children THEN PushedChildren(process) ELSE << >>
           lengths == [length_stack EXCEPT ![Len(length_stack)] = siblings_left]
           popped == IF has_children
                     THEN PopExhausted(Append(lengths, Len(children)),
                                       Append(prefixes, ChildFragment(is_last)))
                     ELSE PopExhausted(lengths, prefixes)
       IN  /\ process.pid \notin collapsed_pids
           /\ data' = Append(data, [process EXCEPT
                                        !.prefix = Some(ExpandedPrefix(is_last)),
                                        !.disabled = disabled])
           /\ stack' = children \o Front(stack)
           /\ length_stack' = popped[1]
           /\ prefixes' = popped[2]
    /\ Phase2Frame

Phase2Expanded ==
    /\ pc = "phase2"
    /\ stack # << >>
    /\ length_stack # << >>
    /\ LET process == Last(stack)
           siblings_left == usize_dec(Last(length_stack))
           disabled == ~is_kept(process.pid)
           is_last == siblings_left = 0
           has_children == process.pid \in DOMAIN filtered_tree
           children == IF has_children THEN PushedChildren(process) ELSE << >>
           lengths == [length_stack EXCEPT ![Len(length_stack)] = siblings_left]
           popped == IF has_children
                     THEN PopExhausted(Append(lengths, Len(children)),
                                       Append(prefixes, ChildFragment(is_last)))
                     ELSE PopExhausted(lengths, prefixes)
       IN  /\ process.pid \notin collapsed_pids
           /\ data' = Append(data, [process EXCEPT
                                        !.prefix = Some(ExpandedPrefix(is_last)),
                                        !.disabled = disabled])
           /\ stack' = Front(stack) \o children
           /\ length_stack' = popped[1]
           /\ prefixes' = popped[2]
    /\ Phase2Frame

\* The phase-2 loop ends (the pop of the loop condition included) and
\* update_displayed_process_data stores the rows.
\* (The mutant drops the collapsed pids that have no record as it returns.)
get_tree_data_return_pruning ==
    /\ pc = "phase2"
    /\ stack = << >> \/ length_stack = << >>
    /\ stack' = IF stack = << >> THEN stack ELSE Front(stack)
    /\ table_data' = data
    /\ collapsed_pids' = collapsed_pids \cap DOMAIN process_harvest
    /\ pc' = "done"
    /\ UNCHANGED <<mode, table_vars, search_state, id_pid_map,
                   flag_vars, data_collection, temperature_vars, kept_pids, visited_pids,
                   filtered_tree, data, prefixes, length_stack>>

get_tree_data_return ==
    /\ pc = "phase2"
    /\ stack = << >> \/ length_stack = << >>
    /\ stack' = IF stack = << >> THEN stack ELSE Front(stack)
    /\ table_data' = data
    /\ pc' = "done"
    /\ UNCHANGED <<mode, collapsed_pids, table_vars, search_state, id_pid_map,
                   flag_vars, data_collection, temperature_vars, kept_pids, visited_pids,
                   filtered_tree, data, prefixes, length_stack>>

(***************************************************************************)
(* The specification of one tree refresh, over every bounded snapshot,     *)
(* search, collapsed set and sort.                                         *)
(***************************************************************************)
\* With a blank search every process matches whatever its name is, so the
\* blank search is paired with one naming only.
TreeSnapshots ==
    UNION {{Snapshot(n, par, names, [p \in 1 .. n |-> "a"], dangling) :
               par \in ParentMaps(n), names \in [1 .. n -> TreeLabels],
               dangling \in Danglings(n)} : n \in 0 .. MaxPid}

\* The search state after a successful update_query with the text "a".
SearchFor(text) ==
    [current_search_query |-> text, query |-> Some(parse_query(text).query),
     is_blank_search |-> FALSE, is_invalid_search |-> FALSE, error_message |-> None,
     grapheme_cursor |-> 0]

InitTree ==
    /\ mode = "Tree"
    /\ collapsed_pids \in SUBSET Pids
    /\ columns = new_columns(FALSE, FALSE, TRUE)
    /\ sort_index \in {PID_OR_COUNT, CPU}
    /\ order \in {"Ascending", "Descending"}
    /\ current_index = 0
    /\ display_start_index = 0
    /\ data_collection \in TreeSnapshots
    /\ search_state \in
           {SearchFor("a")} \cup
           (IF \A pid \in DOMAIN process_harvest : process_harvest[pid].name = "a"
            THEN {DefaultSearchState} ELSE {})
    /\ table_data = << >>
    /\ id_pid_map = EmptyMap
    /\ is_sort_open = FALSE
    /\ force_rerender = TRUE
    /\ force_update_data = FALSE
    /\ NoRefresh
    /\ NoHarvest

NextTree ==
    \/ get_tree_data
    \/ Phase1Verdict
    \/ Phase1PushChildren
    \/ Phase1Leaf
    \/ Phase2Seed
    \/ Phase2Collapsed
    \/ Phase2Expanded
    \/ get_tree_data_return

SpecTree == InitTree /\ [][NextTree]_vars

\* The refresh runs to its end unless it cannot: the caller does not abandon it.
FairSpecTree == SpecTree /\ WF_vars(NextTree)

(***************************************************************************)
(* get_normal_data: the rows of Normal and Grouped mode.  A hash map is    *)
(* iterated in an order the program does not choose, but which is the same *)
(* every time the same map is iterated: the order of                       *)
(* process_harvest.values() is a part of the snapshot (values_order), and  *)
(* the order of id_process_mapping.values(), a map the refresh fills anew  *)
(* from the filtered processes, follows from the order they are put in.    *)
(***************************************************************************)
\* The order in which process_harvest.values() yields the processes.
values_order == data_collection.values_order

\* The keys of a sequence of processes in the order they first occur in it.
RECURSIVE KeysInOrder(_, _)
KeysInOrder(processes, seen) ==
    IF processes = << >> THEN << >>
    ELSE LET key == IF seen.by_command THEN Head(processes).command
                    ELSE Head(processes).name
         IN  IF key \in seen.keys THEN KeysInOrder(Tail(processes), seen)
             ELSE <<key>> \o KeysInOrder(Tail(processes),
                                         [seen EXCEPT !.keys = @ \cup {key}])

\* The processes that pass the search, in the order of iteration.
\* (The mutant lets every process pass.)
filtered_iter_unfiltered(visit) ==
    [i \in 1 .. Len(visit) |-> process_harvest[visit[i]]]

filtered_iter(visit) ==
    LET passing == SelectSeq(visit, LAMBDA pid : Matches(process_harvest[pid]))
    IN  [i \in 1 .. Len(passing) |-> process_harvest[passing[i]]]

\* The grouping key of a process.
GroupId(process) == IF is_using_command THEN process.command ELSE process.name

\* One turn of the grouping loop: the pid joins the pid list of its key, and
\* the process is added to the summed process of its key, or starts it.
\* (The mutant starts the summed process anew on every turn.)
GroupTurnNoSum(maps, process) ==
    LET id == GroupId(process)
    IN  [id_pid_map |->
             IF id \in DOMAIN maps.id_pid_map
             THEN [maps.id_pid_map EXCEPT ![id] = Append(@, process.pid)]
             ELSE MapInsert(maps.id_pid_map, id, <<process.pid>>),
         id_process_mapping |-> MapInsert(maps.id_process_mapping, id, process)]

GroupTurn(maps, process) ==
    LET id == GroupId(process)
    IN  [id_pid_map |->
             IF id \in DOMAIN maps.id_pid_map
             THEN [maps.id_pid_map EXCEPT ![id] = Append(@, process.pid)]
             ELSE MapInsert(maps.id_pid_map, id, <<process.pid>>),
         id_process_mapping |->
             IF id \in DOMAIN maps.id_process_mapping
             THEN [maps.id_process_mapping EXCEPT ![id] = HarvestAdd(@, process)]
             ELSE MapInsert(maps.id_process_mapping, id, process)]

\* The grouping loop over the filtered processes.
RECURSIVE GroupLoop(_, _)
GroupLoop(maps, processes) ==
    IF processes = << >> THEN maps
    ELSE GroupLoop(GroupTurn(maps, Head(processes)), Tail(processes))

\* The rows of the groups: one per summed process, with its member count.
GroupedRows(maps, group_visit) ==
    [i \in 1 .. Len(group_visit) |->
        LET process == maps.id_process_mapping[group_visit[i]]
            id == GroupId(process)
            num_similar == IF id \in DOMAIN maps.id_pid_map
                           THEN Len(maps.id_pid_map[id]) ELSE 1
        IN  [from_data(process, is_using_command, is_mem_percent)
                 EXCEPT !.num_similar = num_similar]]

\* The rows of Normal mode: one per filtered process.
NormalRows(processes) ==
    [i \in 1 .. Len(processes) |->
        from_data(processes[i], is_using_command, is_mem_percent)]

\* update_displayed_process_data in Normal or Grouped mode: get_normal_data
\* as a whole, its result stored in table_data.
get_normal_data ==
    /\ pc \in {"idle", "done"}
    /\ mode \in {"Grouped", "Normal"}
    /\ LET processes == filtered_iter(values_order)
           maps == IF mode = "Grouped"
                   THEN GroupLoop([id_pid_map |-> EmptyMap,
                                   id_process_mapping |-> EmptyMap], processes)
                   ELSE [id_pid_map |-> EmptyMap, id_process_mapping |-> EmptyMap]
           group_visit == KeysInOrder(processes, [by_command |-> is_using_command,
                                                  keys |-> {}])
       IN  /\ id_pid_map' = maps.id_pid_map
           /\ table_data' = try_sort(IF mode = "Grouped"
                                     THEN GroupedRows(maps, group_visit)
                                     ELSE NormalRows(processes))
    /\ pc' = "done"
    /\ UNCHANGED <<mode, collapsed_pids, table_vars, search_state, flag_vars,
                   data_collection, temperature_vars, tree_vars>>

(***************************************************************************)
(* The specification of one refresh in Normal or Grouped mode, over every  *)
(* bounded flat snapshot, search, display option and sort.                 *)
(***************************************************************************)
\* The widget reads the name or the command of a process, never both: the
\* one it reads is drawn from every word, the other is "a".  The processes
\* are iterated in any order.
NormalSnapshots(by_command) ==
    UNION {{[Snapshot(n, [p \in 1 .. n |-> 0],
                      IF by_command THEN [p \in 1 .. n |-> "a"] ELSE labels,
                      IF by_command THEN labels ELSE [p \in 1 .. n |-> "a"],
                      NoDangling) EXCEPT !.values_order = visit] :
               labels \in [1 .. n -> Labels], visit \in Orderings(1 .. n)} :
           n \in 0 .. MaxPid}

InitNormal ==
    /\ \E m \in {"Normal", "Grouped"}, is_command \in BOOLEAN :
           new(m, is_command, TRUE)
    /\ data_collection \in NormalSnapshots(is_using_command)
    /\ NoRefresh
    /\ NoHarvest

\* The sort column and direction are the table's to set: any column the
\* model gives a key to, in either direction.
SetSort ==
    /\ pc = "idle"
    /\ \E index \in {PID_OR_COUNT, PROC_NAME_OR_CMD, CPU}, o \in {"Ascending", "Descending"} :
           /\ sort_index' = index
           /\ order' = o
    /\ UNCHANGED <<mode, collapsed_pids, columns, current_index, display_start_index,
                   search_state, table_data, id_pid_map, flag_vars,
                   data_collection, temperature_vars, pc, tree_vars>>

\* A search for "a" is in force.
SetSearch ==
    /\ pc = "idle"
    /\ search_state = DefaultSearchState
    /\ search_state' = SearchFor("a")
    /\ UNCHANGED <<mode, collapsed_pids, table_vars, table_data, id_pid_map,
                   flag_vars, data_collection, temperature_vars, pc, tree_vars>>

NextNormal == get_normal_data \/ SetSort \/ SetSearch

SpecNormal == InitNormal /\ [][NextNormal]_vars

(***************************************************************************)
(* The mutators of the widget.  They run between refreshes: a mutator      *)
(* leaves pc at "idle", "the stored rows may be stale".                    *)
(***************************************************************************)
CanMutate == pc \in {"idle", "done"}

\* SortDataTable::set_sort_index, as the widget uses it: the index is stored.
set_sort_index(table, index) == [table EXCEPT !.sort_index = index]

\* The table as hide_column and show_column see it.
Table == [columns |-> columns, sort_index |-> sort_index, order |-> order]

\* hide_column: the column is hidden; a hidden sort column gives way to CPU,
\* descending.  (The mutant hides the column and leaves the sort alone.)
hide_column_keep_sort(table, index) ==
    IF index \in DOMAIN table.columns
    THEN [table EXCEPT !.columns[index].is_hidden = TRUE]
    ELSE table

hide_column(table, index) ==
    IF index \in DOMAIN table.columns
    THEN LET hidden == [table EXCEPT !.columns[index].is_hidden = TRUE]
         IN  IF hidden.sort_index = index
             THEN [set_sort_index(hidden, CPU) EXCEPT !.order = "Descending"]
             ELSE hidden
    ELSE table

show_column(table, index) ==
    IF index \in DOMAIN table.columns
    THEN [table EXCEPT !.columns[index].is_hidden = FALSE]
    ELSE table

\* on_tab outside Tree mode, on the table: Pid becomes Count (and the user and
\* state columns are hidden) or Count becomes Pid (and they are shown).
\* (The mutant leaves the default order of the column as it was.)
on_tab_table_keep_default_order(table) ==
    IF table.columns[PID_OR_COUNT].inner = "Pid"
    THEN hide_column(hide_column(
             [table EXCEPT !.columns[PID_OR_COUNT].inner = "Count"], USER), STATE_IDX)
    ELSE show_column(show_column(
             [table EXCEPT !.columns[PID_OR_COUNT].inner = "Pid"], USER), STATE_IDX)

on_tab_table(table) ==
    IF table.columns[PID_OR_COUNT].inner = "Pid"
    THEN hide_column(hide_column(
             [table EXCEPT !.columns[PID_OR_COUNT].inner = "Count",
                           !.columns[PID_OR_COUNT].default_order = "Descending"],
             USER), STATE_IDX)
    ELSE show_column(show_column(
             [table EXCEPT !.columns[PID_OR_COUNT].inner = "Pid",
                           !.columns[PID_OR_COUNT].default_order = "Ascending"],
             USER), STATE_IDX)

\* on_tab: nothing in Tree mode; otherwise Normal and Grouped change places.
on_tab ==
    /\ CanMutate
    /\ IF mode # "Tree"
       THEN LET table == on_tab_table(Table)
            IN  /\ columns' = table.columns
                /\ sort_index' = table.sort_index
                /\ order' = table.order
                /\ mode' = IF columns[PID_OR_COUNT].inner = "Pid"
                           THEN "Grouped" ELSE "Normal"
                /\ force_rerender' = TRUE
                /\ force_update_data' = TRUE
                /\ pc' = "idle"
       ELSE UNCHANGED <<columns, sort_index, order, mode, force_rerender,
                        force_update_data, pc>>
    /\ UNCHANGED <<collapsed_pids, current_index, display_start_index, search_state,
                   table_data, id_pid_map, is_sort_open, data_collection, temperature_vars, tree_vars>>

\* toggle_mem_percentage: the memory column changes between value and percent.
\* (The mutant does not call force_data_update.)
toggle_mem_percentage_no_flag ==
    /\ CanMutate
    /\ columns' = [columns EXCEPT ![MEM].inner =
                      IF @ = "MemoryVal" THEN "MemoryPercent" ELSE "MemoryVal"]
    /\ pc' = "idle"
    /\ UNCHANGED <<mode, collapsed_pids, sort_index, order, current_index,
                   display_start_index, search_state, table_data, id_pid_map,
                   flag_vars, data_collection, temperature_vars, tree_vars>>

toggle_mem_percentage ==
    /\ CanMutate
    /\ columns' = [columns EXCEPT ![MEM].inner =
                      IF @ = "MemoryVal" THEN "MemoryPercent" ELSE "MemoryVal"]
    /\ force_update_data' = TRUE
    /\ pc' = "idle"
    /\ UNCHANGED <<mode, collapsed_pids, sort_index, order, current_index,
                   display_start_index, search_state, table_data, id_pid_map,
                   is_sort_open, force_rerender, data_collection, temperature_vars, tree_vars>>

toggle_command ==
    /\ CanMutate
    /\ columns' = [columns EXCEPT ![PROC_NAME_OR_CMD].inner =
                      IF @ = "Name" THEN "Command" ELSE "Name"]
    /\ force_rerender' = TRUE
    /\ force_update_data' = TRUE
    /\ pc' = "idle"
    /\ UNCHANGED <<mode, collapsed_pids, sort_index, order, current_index,
                   display_start_index, search_state, table_data, id_pid_map,
                   is_sort_open, data_collection, temperature_vars, tree_vars>>

\* The columns a caller selects in the model.
SelectableColumns == {PID_OR_COUNT, CPU, USER, STATE_IDX}

select_column ==
    /\ CanMutate
    /\ \E new_sort_index \in SelectableColumns :
           sort_index' = set_sort_index(Table, new_sort_index).sort_index
    /\ force_update_data' = TRUE
    /\ pc' = "idle"
    /\ UNCHANGED <<mode, collapsed_pids, columns, order, current_index,
                   display_start_index, search_state, table_data, id_pid_map,
                   is_sort_open, force_rerender, data_collection, temperature_vars, tree_vars>>

\* table.current_item(): the stored row under the cursor, if there is one.
current_item ==
    IF current_index + 1 \in DOMAIN table_data
    THEN Some(table_data[current_index + 1]) ELSE None

\* toggle_current_tree_branch_entry: in Tree mode the pid of the row under
\* the cursor leaves the collapsed set if it is in it and enters it if not.
\* (The mutant never takes a pid out.)
toggle_current_tree_branch_entry_insert_only ==
    /\ CanMutate
    /\ IF mode = "Tree" /\ current_item # None
       THEN /\ collapsed_pids' = collapsed_pids \cup {current_item[1].pid}
            /\ force_update_data' = TRUE
            /\ pc' = "idle"
       ELSE UNCHANGED <<collapsed_pids, force_update_data, pc>>
    /\ UNCHANGED <<mode, table_vars, search_state, table_data, id_pid_map,
                   is_sort_open, force_rerender, data_collection, temperature_vars, tree_vars>>

toggle_current_tree_branch_entry ==
    /\ CanMutate
    /\ IF mode = "Tree" /\ current_item # None
       THEN LET pid == current_item[1].pid
            IN  /\ collapsed_pids' = IF pid \in collapsed_pids
                                     THEN collapsed_pids \ {pid}
                                     ELSE collapsed_pids \cup {pid}
                /\ force_update_data' = TRUE
                /\ pc' = "idle"
       ELSE UNCHANGED <<collapsed_pids, force_update_data, pc>>
    /\ UNCHANGED <<mode, table_vars, search_state, table_data, id_pid_map,
                   is_sort_open, force_rerender, data_collection, temperature_vars, tree_vars>>

\* The search text is set to `text` and update_query runs, on the search
\* state.  (The mutant sets no flag for an empty text.)
updated_search_blank_unflagged(state, text) ==
    IF text = ""
    THEN [state EXCEPT !.current_search_query = text, !.error_message = None]
    ELSE IF parse_query(text).ok
    THEN [state EXCEPT !.current_search_query = text,
                       !.query = Some(parse_query(text).query),
                       !.is_blank_search = FALSE, !.is_invalid_search = FALSE,
                       !.error_message = None]
    ELSE [state EXCEPT !.current_search_query = text, !.is_blank_search = FALSE,
                       !.is_invalid_search = TRUE,
                       !.error_message = Some(parse_query(text).err)]

\* (The mutant drops the stored handle when the text fails to parse.)
updated_search_dropping_handle(state, text) ==
    IF text = ""
    THEN [state EXCEPT !.current_search_query = text, !.is_blank_search = TRUE,
                       !.is_invalid_search = FALSE, !.error_message = None]
    ELSE IF parse_query(text).ok
    THEN [state EXCEPT !.current_search_query = text,
                       !.query = Some(parse_query(text).query),
                       !.is_blank_search = FALSE, !.is_invalid_search = FALSE,
                       !.error_message = None]
    ELSE [state EXCEPT !.current_search_query = text, !.query = None,
                       !.is_blank_search = FALSE, !.is_invalid_search = TRUE,
                       !.error_message = Some(parse_query(text).err)]

updated_search(state, text) ==
    IF text = ""
    THEN [state EXCEPT !.current_search_query = text, !.is_blank_search = TRUE,
                       !.is_invalid_search = FALSE, !.error_message = None]
    ELSE IF parse_query(text).ok
    THEN [state EXCEPT !.current_search_query = text,
                       !.query = Some(parse_query(text).query),
                       !.is_blank_search = FALSE, !.is_invalid_search = FALSE,
                       !.error_message = None]
    ELSE [state EXCEPT !.current_search_query = text, !.is_blank_search = FALSE,
                       !.is_invalid_search = TRUE,
                       !.error_message = Some(parse_query(text).err)]

\* The number of characters of a search text of the model.
TextLen(text) == IF text = "" THEN 0 ELSE 1

\* The caller has put `text` into the search box, with the cursor within it.
WithText(state, text) ==
    [state EXCEPT !.grapheme_cursor = IF @ > TextLen(text) THEN TextLen(text) ELSE @]

\* update_query, for the text the caller has set.
\* (The mutant leaves the table position where it is.)
update_query_keeping_position ==
    /\ CanMutate
    /\ \E text \in QueryTexts :
           search_state' = updated_search(WithText(search_state, text), text)
    /\ force_update_data' = TRUE
    /\ pc' = "idle"
    /\ UNCHANGED <<mode, collapsed_pids, table_vars, table_data,
                   id_pid_map, is_sort_open, force_rerender, data_collection, temperature_vars,
                   tree_vars>>

update_query ==
    /\ CanMutate
    /\ \E text \in QueryTexts :
           search_state' = updated_search(WithText(search_state, text), text)
    /\ display_start_index' = 0
    /\ current_index' = 0
    /\ force_update_data' = TRUE
    /\ pc' = "idle"
    /\ UNCHANGED <<mode, collapsed_pids, columns, sort_index, order, table_data,
                   id_pid_map, is_sort_open, force_rerender, data_collection, temperature_vars,
                   tree_vars>>

\* clear_search: AppSearchState::reset() puts the defaults back.
\* (The mutant also empties the stored rows.)
clear_search_dropping_rows ==
    /\ CanMutate
    /\ search_state' = DefaultSearchState
    /\ table_data' = << >>
    /\ force_update_data' = TRUE
    /\ pc' = "idle"
    /\ UNCHANGED <<mode, collapsed_pids, table_vars, id_pid_map,
                   is_sort_open, force_rerender, data_collection, temperature_vars, tree_vars>>

clear_search ==
    /\ CanMutate
    /\ search_state' = DefaultSearchState
    /\ force_update_data' = TRUE
    /\ pc' = "idle"
    /\ UNCHANGED <<mode, collapsed_pids, table_vars, table_data, id_pid_map,
                   is_sort_open, force_rerender, data_collection, temperature_vars, tree_vars>>

\* search_walk_forward and search_walk_back, called with the cursor position:
\* the grapheme cursor moves to the next or the previous boundary of the
\* text, if there is one.
search_walk_forward ==
    /\ CanMutate
    /\ search_state' =
           [search_state EXCEPT !.grapheme_cursor =
               IF @ < TextLen(search_state.current_search_query) THEN @ + 1 ELSE @]
    /\ UNCHANGED <<mode, collapsed_pids, table_vars, table_data, id_pid_map,
                   flag_vars, data_collection, temperature_vars, pc, tree_vars>>

search_walk_back ==
    /\ CanMutate
    /\ search_state' = [search_state EXCEPT !.grapheme_cursor = IF @ > 0 THEN @ - 1 ELSE @]
    /\ UNCHANGED <<mode, collapsed_pids, table_vars, table_data, id_pid_map,
                   flag_vars, data_collection, temperature_vars, pc, tree_vars>>

\* The number of columns that are not hidden.
num_enabled_columns == Cardinality({i \in ColumnIndexes : ~columns[i].is_hidden})

\* use_sort_table_value: the index of the sort picker becomes the sort index.
use_sort_table_value ==
    /\ CanMutate
    /\ \E picked \in SelectableColumns :
           /\ picked < num_enabled_columns
           /\ sort_index' = set_sort_index(Table, picked).sort_index
    /\ is_sort_open' = FALSE
    /\ force_rerender' = TRUE
    /\ force_update_data' = TRUE
    /\ pc' = "idle"
    /\ UNCHANGED <<mode, collapsed_pids, columns, order, current_index,
                   display_start_index, search_state, table_data, id_pid_map,
                   data_collection, temperature_vars, tree_vars>>

(***************************************************************************)
(* The widget's surroundings: the caller that consumes the flags, the      *)
(* table cursor, and the harvester's tick.                                 *)
(***************************************************************************)
\* The caller has seen the flags and clears them.
ConsumeFlags ==
    /\ CanMutate
    /\ force_rerender \/ force_update_data
    /\ force_rerender' = FALSE
    /\ force_update_data' = FALSE
    /\ UNCHANGED <<mode, collapsed_pids, table_vars, search_state, table_data,
                   id_pid_map, is_sort_open, data_collection, temperature_vars, pc, tree_vars>>

\* The table cursor moves to another stored row.
MoveCursor ==
    /\ CanMutate
    /\ \E index \in 0 .. Len(table_data) - 1 :
           /\ index # current_index
           /\ current_index' = index
    /\ UNCHANGED <<mode, collapsed_pids, columns, sort_index, order,
                   display_start_index, search_state, table_data, id_pid_map,
                   flag_vars, data_collection, temperature_vars, pc, tree_vars>>

\* The table scrolls: its first displayed row is another row, at or above the
\* cursor.
ScrollTable ==
    /\ CanMutate
    /\ \E index \in 0 .. current_index :
           /\ index # display_start_index
           /\ display_start_index' = index
    /\ UNCHANGED <<mode, collapsed_pids, columns, sort_index, order, current_index,
                   search_state, table_data, id_pid_map, flag_vars,
                   data_collection, temperature_vars, pc, tree_vars>>

\* The table widget toggles the direction of the active sort column (the
\* direction is the table's to change, not the process widget's).
toggle_sort_order ==
    /\ CanMutate
    /\ order' = IF order = "Ascending" THEN "Descending" ELSE "Ascending"
    /\ pc' = "idle"
    /\ UNCHANGED <<mode, collapsed_pids, columns, sort_index, current_index,
                   display_start_index, search_state, table_data, id_pid_map,
                   flag_vars, data_collection, temperature_vars, tree_vars>>

\* The snapshots of the widget's specification: a root "b" (pid 1) with the
\* children "b" (pid 2) and "a" (pid 3), and the same once pid 2 has exited.
WidgetSnapshots ==
    {[Snapshot(3, <<0, 1, 1>>, <<"b", "b", "a">>, <<"ab", "a", "a">>, NoDangling)
          EXCEPT !.values_order = <<3, 1, 2>>],
     [process_harvest |-> (1 :> ProcessHarvest(1, "b", "ab") @@ 3 :> ProcessHarvest(3, "a", "a")),
      process_parent_mapping |-> (1 :> <<3>>),
      orphan_pids |-> <<1>>,
      values_order |-> <<3, 1>>]}

\* A tick of the harvester replaces the snapshot.
Tick ==
    /\ CanMutate
    /\ \E snapshot \in WidgetSnapshots :
           /\ snapshot # data_collection
           /\ data_collection' = snapshot
    /\ pc' = "idle"
    /\ UNCHANGED <<mode, collapsed_pids, table_vars, search_state, table_data,
                   id_pid_map, flag_vars, tree_vars, temperature_vars>>

(***************************************************************************)
(* The specification of the widget: construction in any mode, then any     *)
(* sequence of mutators, ticks and refreshes.                              *)
(***************************************************************************)
Init ==
    /\ \E m \in {"Normal", "Grouped", "Tree"} : new(m, FALSE, FALSE)
    /\ data_collection \in WidgetSnapshots
    /\ NoRefresh
    /\ NoHarvest

Next ==
    \/ on_tab
    \/ toggle_mem_percentage
    \/ toggle_command
    \/ select_column
    \/ toggle_current_tree_branch_entry
    \/ update_query
    \/ clear_search
    \/ use_sort_table_value
    \/ search_walk_forward
    \/ search_walk_back
    \/ ConsumeFlags
    \/ MoveCursor
    \/ ScrollTable
    \/ toggle_sort_order
    \/ Tick
    \/ get_normal_data
    \/ get_tree_data
    \/ Phase1Verdict
    \/ Phase1PushChildren
    \/ Phase1Leaf
    \/ Phase2Seed
    \/ Phase2Collapsed
    \/ Phase2Expanded
    \/ get_tree_data_return

Spec == Init /\ [][Next]_vars

\* The widget under searches and refreshes alone (no collapse, no tick, no
\* change of mode, column or sort).
NextSearch ==
    \/ update_query
    \/ clear_search
    \/ ConsumeFlags
    \/ MoveCursor
    \/ ScrollTable
    \/ get_normal_data
    \/ get_tree_data
    \/ Phase1Verdict
    \/ Phase1PushChildren
    \/ Phase1Leaf
    \/ Phase2Seed
    \/ Phase2Expanded
    \/ get_tree_data_return

SpecSearch == Init /\ [][NextSearch]_vars

\* The widget under the operations on its mode, columns and sort alone (the
\* stored rows stay empty).
NextColumns ==
    \/ on_tab
    \/ toggle_mem_percentage
    \/ toggle_command
    \/ select_column
    \/ use_sort_table_value
    \/ ConsumeFlags
    \/ toggle_sort_order

SpecColumns == Init /\ [][NextColumns]_vars

\* The widget under every operation exposed to input dispatch, the clearing
\* of the flags and refreshes, over one snapshot.
NextInput ==
    \/ on_tab
    \/ toggle_mem_percentage
    \/ toggle_command
    \/ select_column
    \/ toggle_current_tree_branch_entry
    \/ update_query
    \/ clear_search
    \/ use_sort_table_value
    \/ search_walk_forward
    \/ search_walk_back
    \/ ConsumeFlags
    \/ get_normal_data
    \/ get_tree_data
    \/ Phase1Verdict
    \/ Phase1PushChildren
    \/ Phase1Leaf
    \/ Phase2Seed
    \/ Phase2Collapsed
    \/ Phase2Expanded
    \/ get_tree_data_return

SpecInput == Init /\ [][NextInput]_vars

\* The widget under collapsing, the cursor, ticks and refreshes alone (no
\* search, no change of mode, column or sort).
NextCollapse ==
    \/ toggle_current_tree_branch_entry
    \/ MoveCursor
    \/ ConsumeFlags
    \/ Tick
    \/ get_normal_data
    \/ get_tree_data
    \/ Phase1Verdict
    \/ Phase1PushChildren
    \/ Phase1Leaf
    \/ Phase2Seed
    \/ Phase2Collapsed
    \/ Phase2Expanded
    \/ get_tree_data_return

SpecCollapse == Init /\ [][NextCollapse]_vars

(***************************************************************************)
(* Reference notions, read off the snapshot alone (not off the locals of   *)
(* the refresh).                                                           *)
(***************************************************************************)
\* The children of a pid that have a record.
ChildrenOf(pid) ==
    IF pid \in DOMAIN process_parent_mapping
    THEN Range(process_parent_mapping[pid]) \cap DOMAIN process_harvest
    ELSE {}

\* The proper descendants of a pid (the snapshot is acyclic).
RECURSIVE Descendants(_)
Descendants(pid) ==
    ChildrenOf(pid) \cup UNION {Descendants(child) : child \in ChildrenOf(pid)}

\* The records reachable from the orphan list.
Roots == Range(orphan_pids) \cap DOMAIN process_harvest

ReachableRecords == Roots \cup UNION {Descendants(root) : root \in Roots}

\* A record is to be shown iff it matches or a descendant of it matches.
ShouldShow(pid) ==
    \/ Matches(process_harvest[pid])
    \/ \E d \in Descendants(pid) : Matches(process_harvest[d])

\* Some child list or the orphan list names a pid without a record.
DanglingReference ==
    \/ \E pid \in Range(orphan_pids) : pid \notin DOMAIN process_harvest
    \/ \E parent \in DOMAIN process_parent_mapping :
           \E pid \in Range(process_parent_mapping[parent]) :
               pid \notin DOMAIN process_harvest

\* Some proper ancestor of the pid is collapsed.
HasCollapsedAncestor(pid) ==
    \E a \in DOMAIN process_harvest :
        a \in collapsed_pids /\ pid \in Descendants(a)

\* The records that are to have a row in Tree mode: shown, and not hidden
\* beneath a collapsed ancestor.
ExpectedRowPids ==
    {pid \in ReachableRecords : ShouldShow(pid) /\ ~HasCollapsedAncestor(pid)}

\* The pids of the rows of a sequence of rows.
RowPids(rows) == {rows[i].pid : i \in DOMAIN rows}

(***************************************************************************)
(* C1.  Ancestor inclusion.  Once phase 1 of get_tree_data has ended, a    *)
(* record reachable from an orphan root is a key of filtered_tree iff it   *)
(* matches the search or one of its descendants does; and a record that    *)
(* neither matches nor has a matching descendant has no row in the output. *)
(***************************************************************************)
C1_AncestorInclusion ==
    /\ pc \in {"phase2", "done"} =>
           \A pid \in ReachableRecords :
               pid \in DOMAIN filtered_tree <=> ShouldShow(pid)
    /\ pc = "done" =>
           \A pid \in DOMAIN process_harvest :
               ~ShouldShow(pid) => pid \notin RowPids(table_data)

\* Phase 1 has ended with a record kept only for a grandchild's match, and
\* with another reachable record left out.
C1_Witness ==
    /\ pc = "phase2"
    /\ \E pid \in DOMAIN filtered_tree :
           /\ ~Matches(process_harvest[pid])
           /\ \A child \in ChildrenOf(pid) : ~Matches(process_harvest[child])
           /\ \E d \in Descendants(pid) : Matches(process_harvest[d])
    /\ \E pid \in ReachableRecords : pid \notin DOMAIN filtered_tree

(***************************************************************************)
(* C3.  Missing keys are never fatal in Tree mode: a refresh of a snapshot *)
(* whose child lists or orphan list name a pid without a record comes to   *)
(* its end, with no row for the missing pid and with the rows of all the   *)
(* other shown records.  A refresh that comes to its end is never in a    *)
(* loop iteration that leaves every local as it found it (such an          *)
(* iteration repeats forever).                                             *)
(***************************************************************************)
C3_MissingKeysNeverFatal ==
    DanglingReference =>
        /\ pc \in {"phase1", "phase2"} => ENABLED <<NextTree>>_vars
        /\ pc = "done" =>
               /\ RowPids(table_data) \subseteq DOMAIN process_harvest
               /\ ExpectedRowPids \subseteq RowPids(table_data)

(***************************************************************************)
(* More reference notions for the rows of Tree mode.                       *)
(***************************************************************************)
\* The shown records of the snapshot.
ShownPids == {pid \in ReachableRecords : ShouldShow(pid)}

\* The shown records hidden beneath a collapsed ancestor.
HiddenByCollapse == {pid \in ShownPids : HasCollapsedAncestor(pid)}

\* The collapsed records that get a summary row.
CollapsedRoots == {pid \in ShownPids \ HiddenByCollapse : pid \in collapsed_pids}

\* The row a record has on its own.
OwnRow(pid) == from_data(process_harvest[pid], is_using_command, is_mem_percent)

RECURSIVE SumCpu(_)
SumCpu(S) ==
    IF S = {} THEN 0
    ELSE LET pid == CHOOSE x \in S : TRUE
         IN  OwnRow(pid).cpu + SumCpu(S \ {pid})

RECURSIVE SumMem(_)
SumMem(S) ==
    IF S = {} THEN 0
    ELSE LET pid == CHOOSE x \in S : TRUE
         IN  OwnRow(pid).mem + SumMem(S \ {pid})

\* The string ends with the collapse marker "+ ".
EndsWithCollapseMarker(prefix) ==
    /\ Len(prefix) >= 2
    /\ prefix[Len(prefix) - 1] = "+"
    /\ prefix[Len(prefix)] = " "

\* The positions of the rows of a pid.
RowsWithPid(rows, pid) == {i \in DOMAIN rows : rows[i].pid = pid}

(***************************************************************************)
(* C4.  Collapse aggregation.  After a refresh in Tree mode, a shown pid   *)
(* that is collapsed and has no collapsed proper ancestor has exactly one  *)
(* row; each numeric field of that row is the sum of the field over the    *)
(* record and its shown descendants, each counted once (descendants that   *)
(* are not shown add nothing); and the row's prefix ends with "+ ".        *)
(***************************************************************************)
C4_CollapseAggregation ==
    pc = "done" =>
        \A pid \in CollapsedRoots :
            /\ Cardinality(RowsWithPid(table_data, pid)) = 1
            /\ \A i \in RowsWithPid(table_data, pid) :
                   LET members == {pid} \cup (Descendants(pid) \cap ShownPids)
                   IN  /\ table_data[i].cpu = SumCpu(members)
                       /\ table_data[i].mem = SumMem(members)
                       /\ table_data[i].prefix # None
                       /\ EndsWithCollapseMarker(table_data[i].prefix[1])

\* A refresh has ended with the summary row of a collapsed record that has a
\* shown grandchild, a shown child and a descendant that is not shown.
C4_Witness ==
    /\ pc = "done"
    /\ \E pid \in CollapsedRoots :
           /\ \E child \in ChildrenOf(pid) \cap ShownPids :
                  ChildrenOf(child) \cap ShownPids # {}
           /\ Descendants(pid) \ ShownPids # {}
           /\ RowsWithPid(table_data, pid) # {}

(***************************************************************************)
(* C5.  Row conservation in Tree mode.  As claimed: the number of rows of  *)
(* a refresh is the number of shown records, minus the shown records       *)
(* hidden beneath a collapsed root, plus one per collapsed root.           *)
(***************************************************************************)
C5_RowConservationAsClaimed ==
    pc = "done" =>
        Len(table_data) = Cardinality(ShownPids) - Cardinality(HiddenByCollapse)
                              + Cardinality(CollapsedRoots)

(***************************************************************************)
(* C5, amended.  The number of rows of a refresh in Tree mode is the       *)
(* number of shown records minus the shown records hidden beneath a        *)
(* collapsed root: the summary row of a collapsed root is the one row of   *)
(* that root, not a row more.  The rows with the collapse marker are the   *)
(* rows of the collapsed roots.                                            *)
(***************************************************************************)
C5_RowConservation ==
    pc = "done" =>
        /\ Len(table_data) = Cardinality(ShownPids) - Cardinality(HiddenByCollapse)
        /\ RowPids(table_data) = ShownPids \ HiddenByCollapse
        /\ \A i \in DOMAIN table_data :
               /\ table_data[i].prefix # None
               /\ EndsWithCollapseMarker(table_data[i].prefix[1])
                      <=> table_data[i].pid \in CollapsedRoots

\* A refresh has ended with a summary row that hides shown descendants, an
\* expanded row, and a record that is not shown.
C5_Witness ==
    /\ pc = "done"
    /\ \E pid \in CollapsedRoots : Descendants(pid) \cap ShownPids # {}
    /\ \E i \in DOMAIN table_data : table_data[i].pid \notin collapsed_pids
    /\ ReachableRecords \ ShownPids # {}
    /\ Len(table_data) >= 2

(***************************************************************************)
(* C9.  Root ordering in Tree mode.  The rows of the shown root records    *)
(* are in the order of the active sort column and direction: of two shown  *)
(* roots with different sort keys, the one that sorts first is first.      *)
(***************************************************************************)
C9_RootOrdering ==
    (pc = "done" /\ sort_index \in DOMAIN columns) =>
        \A i, j \in DOMAIN table_data :
            (/\ i < j
             /\ table_data[i].pid \in Roots
             /\ table_data[j].pid \in Roots)
            => ~SortsBefore(columns[sort_index].inner, order,
                            OwnRow(table_data[j].pid), OwnRow(table_data[i].pid))

(***************************************************************************)
(* Reference notions for the rows of Normal and Grouped mode.              *)
(***************************************************************************)
\* The processes that match the search.
MatchingPids == {pid \in DOMAIN process_harvest : Matches(process_harvest[pid])}

\* The grouping keys of the matching processes, and the members of a key.
GroupKeys == {GroupId(process_harvest[pid]) : pid \in MatchingPids}

GroupMembers(key) == {pid \in MatchingPids : GroupId(process_harvest[pid]) = key}

(***************************************************************************)
(* C6.  Grouped mode aggregation.  A refresh in Grouped mode yields        *)
(* exactly one row for each grouping key (name, or command when commands   *)
(* are shown) among the matching processes; the row's count is the number  *)
(* of matching processes with that key, and each numeric field of the row  *)
(* is the sum of the field over them.                                      *)
(***************************************************************************)
C6_GroupedAggregation ==
    (pc = "done" /\ mode = "Grouped") =>
        /\ Len(table_data) = Cardinality(GroupKeys)
        /\ {table_data[i].id : i \in DOMAIN table_data} = GroupKeys
        /\ \A i \in DOMAIN table_data :
               LET members == GroupMembers(table_data[i].id)
               IN  /\ table_data[i].num_similar = Cardinality(members)
                   /\ table_data[i].cpu = SumCpu(members)
                   /\ table_data[i].mem = SumMem(members)

\* A refresh in Grouped mode has ended with a group of several processes, a
\* second group, and a process left out by the search.
C6_Witness ==
    /\ pc = "done"
    /\ mode = "Grouped"
    /\ Len(table_data) >= 2
    /\ \E i \in DOMAIN table_data : table_data[i].num_similar >= 2
    /\ MatchingPids # DOMAIN process_harvest

(***************************************************************************)
(* C7.  Normal mode maps one to one.  A refresh in Normal mode yields      *)
(* exactly one row per process that matches the search, no row for a       *)
(* process that does not, no pid in two rows, and every row carries the    *)
(* fields of its own process, not summed with any other.                   *)
(***************************************************************************)
C7_NormalOneToOne ==
    (pc = "done" /\ mode = "Normal") =>
        /\ RowPids(table_data) = MatchingPids
        /\ Len(table_data) = Cardinality(MatchingPids)
        /\ \A i \in DOMAIN table_data : table_data[i] = OwnRow(table_data[i].pid)

\* A refresh in Normal mode has ended with several rows and with a process
\* left out by the search.
C7_Witness ==
    /\ pc = "done"
    /\ mode = "Normal"
    /\ Len(table_data) >= 2
    /\ MatchingPids # DOMAIN process_harvest

(***************************************************************************)
(* Reference notions for the rows of any mode.                             *)
(***************************************************************************)
\* The process is in the output of the last refresh: it has a row (Normal,
\* Tree) or is a member of a group that has one (Grouped).
InRows(pid) ==
    IF mode = "Grouped"
    THEN \E key \in DOMAIN id_pid_map : pid \in Range(id_pid_map[key])
    ELSE pid \in RowPids(table_data)

\* The process, or in Tree mode one of its descendants, matches the query.
MatchesQuery(query, pid) ==
    \/ check(query, process_harvest[pid], is_using_command)
    \/ /\ mode = "Tree"
       /\ \E d \in Descendants(pid) :
              check(query, process_harvest[d], is_using_command)

C8_BlankSearchShowsAll ==
    search_state.current_search_query = "" =>
        /\ search_state.is_blank_search
        /\ ~search_state.is_invalid_search
        /\ pc = "done" =>
               /\ \A pid \in DOMAIN process_harvest : InRows(pid)
               /\ \A i \in DOMAIN table_data : ~table_data[i].disabled

\* A refresh has ended under an empty text that was set after a query that
\* some process does not match (its handle is still stored).
C8_Witness ==
    /\ pc = "done"
    /\ search_state.current_search_query = ""
    /\ search_state.query # None
    /\ \E pid \in DOMAIN process_harvest :
           ~MatchesQuery(search_state.query[1], pid) /\ InRows(pid)

(***************************************************************************)
(* C10.  on_tab.  In Normal mode on_tab switches to Grouped, turns the     *)
(* pid column into the count column with default order descending, hides   *)
(* the user and state columns and sets both flags; in Grouped mode it      *)
(* switches to Normal, turns the column back into the pid column with      *)
(* default order ascending, shows the two columns and sets both flags; in  *)
(* Tree mode it changes nothing.                                           *)
(***************************************************************************)
C10_OnTabTransitions ==
    [][on_tab =>
         CASE mode = "Normal" ->
                  /\ mode' = "Grouped"
                  /\ columns'[PID_OR_COUNT].inner = "Count"
                  /\ columns'[PID_OR_COUNT].default_order = "Descending"
                  /\ columns'[USER].is_hidden
                  /\ columns'[STATE_IDX].is_hidden
                  /\ force_update_data'
                  /\ force_rerender'
           [] mode = "Grouped" ->
                  /\ mode' = "Normal"
                  /\ columns'[PID_OR_COUNT].inner = "Pid"
                  /\ columns'[PID_OR_COUNT].default_order = "Ascending"
                  /\ ~columns'[USER].is_hidden
                  /\ ~columns'[STATE_IDX].is_hidden
                  /\ force_update_data'
                  /\ force_rerender'
           [] OTHER ->
                  UNCHANGED <<mode, collapsed_pids, columns, sort_index, order,
                              force_rerender, force_update_data>>]_vars

\* on_tab has taken the widget from Normal to Grouped and, in another run,
\* back: the columns are hidden (which only on_tab does), the count column
\* has its descending default, and both flags are set.
C10_Witness ==
    /\ mode = "Grouped"
    /\ columns[PID_OR_COUNT].inner = "Count"
    /\ columns[PID_OR_COUNT].default_order = "Descending"
    /\ columns[USER].is_hidden
    /\ columns[STATE_IDX].is_hidden
    /\ force_rerender
    /\ force_update_data

(***************************************************************************)
(* C11.  Grouped hides the columns.  In every state of the widget, from    *)
(* construction in any mode and after any sequence of on_tab,              *)
(* select_column, toggle_command, toggle_mem_percentage and update_query   *)
(* calls, Grouped mode implies that the user column and the state column   *)
(* are hidden.                                                             *)
(***************************************************************************)
C11_GroupedHidesColumns ==
    mode = "Grouped" =>
        /\ columns[USER].is_hidden
        /\ columns[STATE_IDX].is_hidden

(***************************************************************************)
(* C12.  As claimed: on_tab resets the sort to CPU, descending, when it    *)
(* hides the active sort column, and consequently, after any sequence of   *)
(* on_tab and select_column calls, the active sort column is never a       *)
(* hidden column.                                                          *)
(***************************************************************************)
C12_SortColumnNeverHiddenAsClaimed ==
    sort_index \in DOMAIN columns => ~columns[sort_index].is_hidden

(***************************************************************************)
(* C12, amended.  When on_tab hides the user or the state column while it  *)
(* is the active sort column, the sort becomes CPU, descending; when the   *)
(* active sort column is any other column, on_tab leaves the sort column   *)
(* and direction as they are.  So the active sort column is not hidden     *)
(* when on_tab returns.  (select_column does not look at the hidden flag:  *)
(* it can make a hidden column the active sort column afterwards.)         *)
(***************************************************************************)
C12_SortResetOnHide ==
    [][(on_tab /\ mode # "Tree") =>
           /\ (mode = "Normal" /\ sort_index \in {USER, STATE_IDX}) =>
                  (sort_index' = CPU /\ order' = "Descending")
           /\ ~(mode = "Normal" /\ sort_index \in {USER, STATE_IDX}) =>
                  UNCHANGED <<sort_index, order>>
           /\ ~columns'[sort_index'].is_hidden]_vars

\* on_tab has hidden the two columns and the sort is CPU, descending, with
\* both flags still set.
C12_Witness ==
    /\ mode = "Grouped"
    /\ columns[USER].is_hidden
    /\ columns[STATE_IDX].is_hidden
    /\ sort_index = CPU
    /\ order = "Descending"
    /\ force_rerender
    /\ force_update_data
    /\ pc = "idle"

(***************************************************************************)
(* C13.  toggle_current_tree_branch_entry is a membership flip.  In Tree   *)
(* mode with a row under the cursor it puts the row's pid into the         *)
(* collapsed set if it is not in it and takes it out if it is, touches no  *)
(* other member and sets force_update_data; the row under the cursor stays *)
(* the same, so a second toggle restores the set.  In Normal or Grouped    *)
(* mode it changes neither the mode nor any flag.                          *)
(***************************************************************************)
C13_ToggleIsMembershipFlip ==
    [][toggle_current_tree_branch_entry =>
           IF mode = "Tree" /\ current_item # None
           THEN LET pid == current_item[1].pid
                IN  /\ pid \in collapsed_pids => collapsed_pids' = collapsed_pids \ {pid}
                    /\ pid \notin collapsed_pids =>
                           collapsed_pids' = collapsed_pids \cup {pid}
                    /\ (pid \in collapsed_pids') # (pid \in collapsed_pids)
                    /\ collapsed_pids' \ {pid} = collapsed_pids \ {pid}
                    /\ force_update_data'
                    /\ current_item' = current_item
                    /\ mode' = mode
           ELSE UNCHANGED <<mode, collapsed_pids, flag_vars>>]_vars

\* Toggles on two rows have put two pids into the collapsed set (the second
\* with the cursor moved), and the flag is still set.
C13_Witness ==
    /\ mode = "Tree"
    /\ pc = "idle"
    /\ Cardinality(collapsed_pids) >= 2
    /\ current_item # None
    /\ current_item[1].pid \in collapsed_pids
    /\ force_update_data

(***************************************************************************)
(* The rows of Tree mode in closed form, for a collapsed set: the forest   *)
(* of the shown records, walked depth first, the siblings in the order     *)
(* the emission stack pops them.                                           *)
(***************************************************************************)
\* The shown children of a record, in the order of its child list.
ShownChildren(pid) ==
    IF pid \in DOMAIN process_parent_mapping
    THEN SelectSeq(process_parent_mapping[pid],
                   LAMBDA child : child \in DOMAIN process_harvest /\ ShouldShow(child))
    ELSE << >>

\* The prefix of a row under the fragments of its ancestors.
RowPrefix(fragments, is_last, is_collapsed) ==
    (IF fragments = << >> THEN << >>
     ELSE Join(fragments) \o <<Branch(is_last), BRANCH_HORIZONTAL, " ">>)
    \o (IF is_collapsed THEN <<"+", " ">> ELSE << >>)

\* The fragment the children of an expanded row get.
FragmentBelow(fragments, is_last) ==
    IF fragments = << >> THEN << >>
    ELSE IF is_last THEN <<" ", " ", " ">>
    ELSE <<BRANCH_VERTICAL, " ", " ">>

\* The rows of the siblings from the i-th on, each followed by the rows
\* beneath it unless it is collapsed.
RECURSIVE RowsFrom(_, _, _, _)
RowsFrom(collapsed, siblings, i, fragments) ==
    IF i > Len(siblings) THEN << >>
    ELSE LET process == siblings[i]
             pid == process.pid
             is_last == i = Len(siblings)
             members == {pid} \cup (Descendants(pid) \cap ShownPids)
             row == IF pid \in collapsed
                    THEN [process EXCEPT !.cpu = SumCpu(members),
                                         !.mem = SumMem(members),
                                         !.prefix = Some(RowPrefix(fragments, is_last, TRUE)),
                                         !.disabled = ~Matches(process_harvest[pid])]
                    ELSE [process EXCEPT !.prefix = Some(RowPrefix(fragments, is_last, FALSE)),
                                         !.disabled = ~Matches(process_harvest[pid])]
             below == IF pid \in collapsed THEN << >>
                      ELSE RowsFrom(collapsed,
                                    Reverse(try_rev_sort(RowsOf(ShownChildren(pid)))), 1,
                                    Append(fragments, FragmentBelow(fragments, is_last)))
         IN  <<row>> \o below \o RowsFrom(collapsed, siblings, i + 1, fragments)

\* The rows of a refresh in Tree mode under the collapsed set.
TreeRows(collapsed) ==
    RowsFrom(collapsed,
             Reverse(try_sort(RowsOf(SelectSeq(orphan_pids,
                 LAMBDA pid : pid \in DOMAIN process_harvest /\ ShouldShow(pid))))),
             1, << >>)

\* The collapsed pids that have no record in the snapshot.
StaleCollapsed == collapsed_pids \ DOMAIN process_harvest

\* The stored rows of a finished refresh are the rows under the collapsed
\* pids that have a record.
StaleCollapsedInert ==
    (pc = "done" /\ mode = "Tree") =>
        table_data = TreeRows(collapsed_pids \cap DOMAIN process_harvest)

(***************************************************************************)
(* C14.  The collapsed set persists.  No step of a refresh and no tick     *)
(* adds a pid to the collapsed set or takes one out, also when the         *)
(* snapshot lacks a collapsed pid; and a collapsed pid without a record is *)
(* inert: the rows of a refresh under the collapsed set S are the rows     *)
(* under S restricted to the pids of the snapshot.                         *)
(***************************************************************************)
C14_CollapsedSetPersists ==
    /\ [][collapsed_pids' # collapsed_pids => toggle_current_tree_branch_entry]_vars
    /\ []StaleCollapsedInert

\* A refresh has ended under a collapsed set with a pid that has left the
\* snapshot and a pid that is still in it.
C14_Witness ==
    /\ pc = "done"
    /\ mode = "Tree"
    /\ StaleCollapsed # {}
    /\ collapsed_pids \cap RowPids(table_data) # {}
    /\ Len(table_data) >= 2

(***************************************************************************)
(* C15.  As claimed: every operation exposed to input dispatch             *)
(* (toggle_mem_percentage, toggle_command, on_tab,                         *)
(* toggle_current_tree_branch_entry, select_column, update_query,          *)
(* clear_search, the search cursor moves, use_sort_table_value) leaves     *)
(* force_update_data or force_rerender set when it returns, in every mode  *)
(* and state.                                                              *)
(***************************************************************************)
InputOperation ==
    \/ on_tab
    \/ toggle_mem_percentage
    \/ toggle_command
    \/ select_column
    \/ toggle_current_tree_branch_entry
    \/ update_query
    \/ clear_search
    \/ use_sort_table_value
    \/ search_walk_forward
    \/ search_walk_back

C15_EveryMutatorSetsAFlagAsClaimed ==
    [][InputOperation => (force_update_data' \/ force_rerender')]_vars

(***************************************************************************)
(* C15, amended.  toggle_mem_percentage, select_column, update_query and   *)
(* clear_search leave force_update_data set; toggle_command and            *)
(* use_sort_table_value leave both flags set; on_tab leaves both flags set *)
(* in Normal and Grouped mode and leaves the flags as they are in Tree     *)
(* mode; toggle_current_tree_branch_entry leaves force_update_data set in  *)
(* Tree mode with a row under the cursor and otherwise leaves the flags as *)
(* they are; the search cursor moves leave the flags as they are.          *)
(***************************************************************************)
C15_FlagsOfEachOperation ==
    [][/\ (toggle_mem_percentage \/ select_column \/ update_query \/ clear_search)
              => force_update_data'
       /\ (toggle_command \/ use_sort_table_value)
              => (force_update_data' /\ force_rerender')
       /\ on_tab => IF mode = "Tree" THEN UNCHANGED flag_vars
                    ELSE force_update_data' /\ force_rerender'
       /\ toggle_current_tree_branch_entry =>
              IF mode = "Tree" /\ current_item # None THEN force_update_data'
              ELSE UNCHANGED flag_vars
       /\ (search_walk_forward \/ search_walk_back) => UNCHANGED flag_vars]_vars

\* The search cursor has moved into the text while both flags are clear, in
\* Tree mode with rows stored (where on_tab changes nothing).
C15_Witness ==
    /\ search_state.grapheme_cursor = 1
    /\ ~force_update_data
    /\ ~force_rerender
    /\ mode = "Tree"
    /\ table_data # << >>

(***************************************************************************)
(* C16.  Input events do not recompute rows.  None of on_tab,              *)
(* toggle_current_tree_branch_entry, select_column, toggle_command,        *)
(* toggle_mem_percentage, update_query, clear_search, use_sort_table_value *)
(* (nor a search cursor move) changes the stored rows table_data; they     *)
(* change only when a refresh (update_displayed_process_data) stores its   *)
(* result, and the rows it stores are those of the current snapshot and    *)
(* widget state, whatever was stored before.                               *)
(***************************************************************************)
C16_OnlyRefreshChangesRows ==
    /\ [][InputOperation => table_data' = table_data]_vars
    /\ [][table_data' # table_data => (get_normal_data \/ get_tree_data_return)]_vars
    /\ [](pc = "done" =>
              /\ mode = "Tree" => table_data = TreeRows(collapsed_pids)
              /\ mode = "Normal" =>
                     /\ RowPids(table_data) = MatchingPids
                     /\ Len(table_data) = Cardinality(MatchingPids)
                     /\ \A i \in DOMAIN table_data :
                            table_data[i] = OwnRow(table_data[i].pid)
              /\ mode = "Grouped" =>
                     /\ {table_data[i].id : i \in DOMAIN table_data} = GroupKeys
                     /\ Len(table_data) = Cardinality(GroupKeys))

\* An update_query has set a search that leaves a process out, and the rows
\* stored before it are all still there, with the data-dirty flag set.
C16_Witness ==
    /\ pc = "idle"
    /\ mode = "Normal"
    /\ force_update_data
    /\ MatchingPids # DOMAIN process_harvest
    /\ RowPids(table_data) = DOMAIN process_harvest

(***************************************************************************)
(* C17.  update_query resets the position and marks the data dirty.  When  *)
(* update_query returns, on each of its three paths (empty text, parsed    *)
(* text, text that fails to parse), the table's current index and display  *)
(* start index are 0 and force_update_data is set.                         *)
(***************************************************************************)
C17_UpdateQueryResetsPosition ==
    [][update_query =>
           /\ current_index' = 0
           /\ display_start_index' = 0
           /\ force_update_data'
           /\ \/ search_state'.current_search_query = "" /\ search_state'.is_blank_search
              \/ parse_query(search_state'.current_search_query).ok
                     /\ ~search_state'.is_invalid_search
              \/ ~parse_query(search_state'.current_search_query).ok
                     /\ search_state'.is_invalid_search]_vars

\* An update_query with a text that fails to parse has returned, over several
\* stored rows and after an earlier query that parsed: the table is at its
\* top and the flag is set.
C17_Witness ==
    /\ pc = "idle"
    /\ search_state.is_invalid_search
    /\ current_index = 0
    /\ display_start_index = 0
    /\ force_update_data
    /\ Len(table_data) >= 2
    /\ search_state.query # None

(***************************************************************************)
(* C18.  Disabled marking.  In Tree mode a row that is not collapsed is    *)
(* marked disabled iff its own record fails the search (so it is shown     *)
(* only because a descendant matches), and every disabled row has a        *)
(* matching descendant in the snapshot.  E.g. a root "b" with the children *)
(* "b" and "a" under the query "a" yields exactly the rows of the root     *)
(* (disabled) and of the child "a" (enabled).                              *)
(***************************************************************************)
\* The snapshot of the example: pid 1 "b" with the children 2 "b" and 3 "a",
\* searched for "a", nothing of it collapsed.
DisabledExample ==
    /\ data_collection = Snapshot(3, <<0, 1, 1>>, <<"b", "b", "a">>,
                                  <<"a", "a", "a">>, NoDangling)
    /\ search_state = SearchFor("a")
    /\ collapsed_pids \cap {1, 3} = {}

C18_DisabledMarking ==
    pc = "done" =>
        /\ \A i \in DOMAIN table_data :
               LET pid == table_data[i].pid
               IN  /\ pid \notin collapsed_pids =>
                          (table_data[i].disabled <=> ~Matches(process_harvest[pid]))
                   /\ table_data[i].disabled =>
                          \E d \in Descendants(pid) : Matches(process_harvest[d])
        /\ DisabledExample =>
               /\ Len(table_data) = 2
               /\ table_data[1].pid = 1 /\ table_data[1].disabled
               /\ table_data[2].pid = 3 /\ ~table_data[2].disabled

\* The refresh of the example has ended.
C18_Witness ==
    /\ pc = "done"
    /\ DisabledExample
    /\ \E i \in DOMAIN table_data : table_data[i].disabled

(***************************************************************************)
(* Sorting twice, and refreshing twice.                                    *)
(***************************************************************************)
\* The rows get_normal_data hands to try_sort in the current state.
UnsortedRows ==
    LET processes == filtered_iter(values_order)
        maps == GroupLoop([id_pid_map |-> EmptyMap,
                           id_process_mapping |-> EmptyMap], processes)
    IN  IF mode = "Grouped"
        THEN GroupedRows(maps, KeysInOrder(processes, [by_command |-> is_using_command,
                                                       keys |-> {}]))
        ELSE NormalRows(processes)

\* The key try_sort compares rows on, 0 when there is no sort column.
ActiveKey(row) ==
    IF sort_index \in DOMAIN columns THEN SortKey(columns[sort_index].inner, row) ELSE 0

\* The place of a row in a sequence of distinct rows.
PlaceOf(rows, row) == CHOOSE k \in DOMAIN rows : rows[k] = row

\* `out` holds the rows of `in`, and any two rows of equal key are in `out`
\* in the order they have in `in`.
KeepsEqualKeyOrder(in, out) ==
    /\ Len(out) = Len(in)
    /\ Range(out) = Range(in)
    /\ \A i, j \in DOMAIN in :
           (i < j /\ ActiveKey(in[i]) = ActiveKey(in[j]))
               => PlaceOf(out, in[i]) < PlaceOf(out, in[j])

C20_ParseFailureState ==
    /\ [][update_query =>
              LET text == search_state'.current_search_query
              IN  /\ (text # "" /\ ~parse_query(text).ok)
                         => /\ search_state'.is_invalid_search
                            /\ ~search_state'.is_blank_search
                            /\ search_state'.error_message = Some(parse_query(text).err)
                            /\ search_state'.query = search_state.query
                  /\ (text # "" /\ parse_query(text).ok)
                         => /\ search_state'.query = Some(parse_query(text).query)
                            /\ ~search_state'.is_invalid_search
                            /\ ~search_state'.is_blank_search
                            /\ search_state'.error_message = None]_vars
    /\ [](search_state.is_invalid_search <=> search_state.error_message # None)

\* A text has failed to parse after an earlier text that parsed: the handle
\* of the earlier text is still stored beside the error message, and the
\* next text that parses will replace it.
C20_Witness ==
    /\ search_state.is_invalid_search
    /\ ~search_state.is_blank_search
    /\ search_state.error_message = Some("parse error")
    /\ search_state.query = Some([text |-> "a"])
    /\ ENABLED (update_query /\ search_state'.query = Some([text |-> "b"])
                             /\ ~search_state'.is_invalid_search)

(***************************************************************************)
(* The prefix fragments and branch glyphs of the tree rows.                *)
(***************************************************************************)
\* The branch glyphs (end or split) in a prefix, in order.
BranchGlyphs(prefix) ==
    SelectSeq(prefix, LAMBDA glyph : glyph \in {BRANCH_END, BRANCH_SPLIT})

\* The emission loop is at the root level: one sibling frame is open.
AtRootLevel == Len(length_stack) = 1

\* The row the loop is about to pop is the last of its siblings.
TopIsLast == Last(length_stack) = 1

\* An iteration on an expanded row that pushes one shown child or more.
PushesChildren == Phase2Expanded /\ Len(stack') >= Len(stack)

\* C21 as claimed: at every depth, the root level included, the fragment
\* pushed for the children of an expanded row is the vertical bar and two
\* blanks if the row is not the last of its siblings and three blanks if it
\* is, and the branch glyph of a row that has one is the end glyph if the row
\* is the last of its siblings and the split glyph otherwise.
C21_PrefixContinuationAsClaimed ==
    [][/\ PushesChildren
              => prefixes' = Append(prefixes, IF TopIsLast THEN <<" ", " ", " ">>
                                              ELSE <<BRANCH_VERTICAL, " ", " ">>)
       /\ (Phase2Expanded \/ Phase2Collapsed)
              => BranchGlyphs(Last(data').prefix[1]) \in {<< >>, <<Branch(TopIsLast)>>}]_vars

\* C21: below the root level, the fragment pushed for the children of an
\* expanded row is the vertical bar and two blanks if the row is not the
\* last of its siblings and three blanks if it is, and the row's own branch
\* glyph is the end glyph if it is the last of its siblings and the split
\* glyph otherwise; at the root level the fragment is empty and the row has
\* no branch glyph, whether or not further roots follow.
C21_PrefixContinuation ==
    [][/\ PushesChildren
              => prefixes' = Append(prefixes,
                                    IF AtRootLevel THEN << >>
                                    ELSE IF TopIsLast THEN <<" ", " ", " ">>
                                    ELSE <<BRANCH_VERTICAL, " ", " ">>)
       /\ (Phase2Expanded \/ Phase2Collapsed)
              => BranchGlyphs(Last(data').prefix[1]) =
                     (IF AtRootLevel THEN << >> ELSE <<Branch(TopIsLast)>>)]_vars

\* A refresh has stored four rows: a root that is followed by a further
\* root, its only child with the end glyph and no fragment before it, the
\* child's only child after the blank fragment, and the further root.
C21_Witness ==
    /\ pc = "done"
    /\ Len(table_data) = 4
    /\ table_data[1].prefix = Some(<< >>)
    /\ table_data[2].prefix = Some(<<BRANCH_END, BRANCH_HORIZONTAL, " ">>)
    /\ table_data[3].prefix = Some(<<" ", " ", " ", BRANCH_END, BRANCH_HORIZONTAL, " ">>)
    /\ table_data[4].prefix = Some(<< >>)

(***************************************************************************)
(* The order of the children of an expanded row.                           *)
(***************************************************************************)
\* Rows i and j of the stored rows are children of one record.
SiblingRows(i, j) ==
    \E parent \in DOMAIN process_parent_mapping :
        {table_data[i].pid, table_data[j].pid} \subseteq ChildrenOf(parent)

\* C22: in the rows of a tree refresh, of two children of one expanded
\* record whose keys under the active sort column differ, the one that sorts
\* first under the active column and direction comes first.
C22_ChildOrdering ==
    (pc = "done" /\ mode = "Tree" /\ sort_index \in DOMAIN columns) =>
        \A i, j \in DOMAIN table_data :
            (i < j /\ SiblingRows(i, j))
            => ~SortsBefore(columns[sort_index].inner, order,
                            OwnRow(table_data[j].pid), OwnRow(table_data[i].pid))

\* A refresh has stored the rows of three children of one record, in an
\* order that is not the order of the record's child list.
C22_Witness ==
    /\ pc = "done"
    /\ mode = "Tree"
    /\ \E parent \in DOMAIN process_parent_mapping :
           /\ Len(process_parent_mapping[parent]) = 3
           /\ \E i \in DOMAIN table_data :
                  /\ i + 2 \in DOMAIN table_data
                  /\ <<table_data[i + 2].pid, table_data[i + 1].pid, table_data[i].pid>>
                         = process_parent_mapping[parent]

(***************************************************************************)
(* The filtered parent-to-children map of phase 1.                         *)
(***************************************************************************)
\* `sub` is `seq` with some elements left out.
RECURSIVE IsSubsequence(_, _)
IsSubsequence(sub, seq) ==
    IF sub = << >> THEN TRUE
    ELSE IF seq = << >> THEN FALSE
    ELSE IF Head(sub) = Head(seq) THEN IsSubsequence(Tail(sub), Tail(seq))
    ELSE IsSubsequence(sub, Tail(seq))

\* The child list of a pid in the snapshot, empty if it has none.
SnapshotChildren(pid) ==
    IF pid \in DOMAIN process_parent_mapping THEN process_parent_mapping[pid] ELSE << >>

\* Every child listed in the filtered map is a key of it, and every child
\* list of it is the snapshot's child list with some children left out.
FilteredTreeClosed ==
    \A pid \in DOMAIN filtered_tree :
        /\ Range(filtered_tree[pid]) \subseteq DOMAIN filtered_tree
        /\ IsSubsequence(filtered_tree[pid], SnapshotChildren(pid))

\* C23: while phase 1 runs and when it has finished, every pid listed as a
\* child in the filtered map is a key of the map and every key's child list
\* is a subsequence of the pid's child list in the snapshot; and a step of
\* phase 1 records a verdict only for a pid all of whose children have a
\* verdict.
C23_FilteredForestClosure ==
    /\ [](pc \in {"phase1", "phase2", "done"} => FilteredTreeClosed)
    /\ [][pc = "phase1" =>
              \A pid \in DOMAIN visited_pids' :
                  (pid \notin DOMAIN visited_pids \/ visited_pids'[pid] # visited_pids[pid])
                  => Range(SnapshotChildren(pid)) \subseteq DOMAIN visited_pids]_vars

\* Phase 1 has finished with a key whose snapshot child list has three pids
\* of which the filtered map keeps the first and the last.
C23_Witness ==
    /\ pc = "phase2"
    /\ data = << >>
    /\ \E pid \in DOMAIN filtered_tree :
           /\ Len(SnapshotChildren(pid)) = 3
           /\ filtered_tree[pid] = <<SnapshotChildren(pid)[1], SnapshotChildren(pid)[3]>>

(***************************************************************************)
(* get_temperature_data (data_collection/temperature.rs).  Temperatures    *)
(* are in hundredths of a degree; a reading is never NaN.                  *)
(***************************************************************************)
\* The names of the sensors.
ComponentNames == {"a", "b"}

\* The readings of the sensors, in hundredths of a degree Celsius.
CelsiusReadings == {2000, 2500}

\* The place of a component name in the order of strings.
NameRank(component_name) == IF component_name = "a" THEN 1 ELSE 2

\* The reading of a sensor in the unit asked for.
Converted(celsius, temp_type) ==
    CASE temp_type = "Celsius" -> celsius
      [] temp_type = "Kelvin" -> celsius + 27315
      [] OTHER -> (celsius * 9) \div 5 + 3200

TempData(component_name, celsius, temp_type) ==
    [component_name |-> component_name, temperature |-> Converted(celsius, temp_type)]

\* The comparators of the two sorts: greater temperatures first, and
\* component names ascending.
TempLess(by, x, y) ==
    IF by = "temperature" THEN x.temperature > y.temperature
    ELSE NameRank(x.component_name) < NameRank(y.component_name)

\* slice::sort_by, a stable sort: each element is put before the first
\* element it compares less than.
RECURSIVE InsertTemp(_, _, _)
InsertTemp(by, sorted, x) ==
    IF sorted = << >> THEN <<x>>
    ELSE IF TempLess(by, x, Head(sorted)) THEN <<x>> \o sorted
    ELSE <<Head(sorted)>> \o InsertTemp(by, Tail(sorted), x)

RECURSIVE SortTemp(_, _, _)
SortTemp(by, sorted, rest) ==
    IF rest = << >> THEN sorted
    ELSE SortTemp(by, InsertTemp(by, sorted, Head(rest)), Tail(rest))

\* The loop over the sensors has pushed a TempData for each.
HarvestedTemperatures ==
    UNION {{[i \in 1 .. n |-> TempData(names[i], readings[i], temp_type)] :
               names \in [1 .. n -> ComponentNames],
               readings \in [1 .. n -> CelsiusReadings],
               temp_type \in {"Celsius", "Kelvin", "Fahrenheit"}} :
           n \in 0 .. MaxSensors}

\* What get_temperature_data leaves alone: the widget.
TemperatureFrame ==
    UNCHANGED <<mode, collapsed_pids, table_vars, search_state, table_data,
                id_pid_map, flag_vars, data_collection, pc, tree_vars>>

\* The first sort_by of get_temperature_data.
sort_by_temperature ==
    /\ temperature_pc = "harvested"
    /\ temperature_vec' = SortTemp("temperature", << >>, temperature_vec)
    /\ temperature_pc' = "sorted_by_temperature"
    /\ TemperatureFrame

\* The second sort_by of get_temperature_data, and its return.
sort_by_component_name ==
    /\ temperature_pc = "sorted_by_temperature"
    /\ temperature_vec' = SortTemp("component_name", << >>, temperature_vec)
    /\ temperature_pc' = "returned"
    /\ TemperatureFrame

InitTemperature ==
    /\ new("Normal", FALSE, FALSE)
    /\ data_collection \in WidgetSnapshots
    /\ NoRefresh
    /\ temperature_vec \in HarvestedTemperatures
    /\ temperature_pc = "harvested"

NextTemperature == sort_by_temperature \/ sort_by_component_name

SpecTemperature == InitTemperature /\ [][NextTemperature]_vars

\* C24: the readings get_temperature_data returns are sorted by temperature,
\* greater temperatures first, and among readings of equal temperature by
\* component name ascending.
C24_TemperatureOrdering ==
    temperature_pc = "returned" =>
        \A i, j \in DOMAIN temperature_vec :
            i < j =>
                \/ temperature_vec[i].temperature > temperature_vec[j].temperature
                \/ /\ temperature_vec[i].temperature = temperature_vec[j].temperature
                   /\ NameRank(temperature_vec[i].component_name)
                          <= NameRank(temperature_vec[j].component_name)

(***************************************************************************)
(* Termination of the tree refresh.                                        *)
(***************************************************************************)
\* The snapshots of the termination check: every forest of up to MaxPid pids
\* in which every pid named has a record, under every search and collapsed
\* set, sorted by pid.
InitTermination ==
    /\ InitTree
    /\ ~DanglingReference
    /\ sort_index = PID_OR_COUNT
    /\ order = "Ascending"

\* The loops of get_tree_data keep running until they end.
SpecTermination == InitTermination /\ [][NextTree]_vars /\ WF_vars(NextTree)

\* C25: when the orphan list and the child lists of the snapshot name only
\* pids that have a record, a tree refresh that has been entered ends: the
\* phase-1 loop ends with its stack empty, and then the phase-2 loop ends
\* with its stack empty and the rows are stored.
C25_TreeRefreshTerminates ==
    /\ (pc = "phase1" /\ ~DanglingReference) ~> (pc = "phase2" /\ data = << >>)
    /\ (pc = "phase2" /\ ~DanglingReference) ~> (pc = "done" /\ stack = << >>)
    /\ [][pc = "phase1" /\ pc' = "phase2" => stack = << >>]_vars

\* A refresh has ended on a chain of four pids, one below the other, with a
\* collapsed pid in the chain: phase 1 has pushed the children of each pid
\* before it could give the pid its verdict.
C25_Witness ==
    /\ pc = "done"
    /\ stack = << >>
    /\ ~DanglingReference
    /\ DOMAIN process_parent_mapping = {1, 2, 3}
    /\ Len(orphan_pids) = 1
    /\ collapsed_pids = {3}
    /\ Len(table_data) = 3

(***************************************************************************)
(* The stacks of the emission loop.                                        *)
(***************************************************************************)
\* The sum of the counters of the siblings-remaining stack.
RECURSIVE SumOf(_)
SumOf(lengths) == IF lengths = << >> THEN 0 ELSE Head(lengths) + SumOf(Tail(lengths))

\* C26: at the start of every iteration of the emission loop, and when the
\* loop exits, the counters of the siblings-remaining stack add up to the
\* number of rows on the emission stack and the top counter is not zero if
\* the emission stack is not empty; no counter is ever decremented below
\* zero; the loop exits with the emission stack empty; and the prefix stack
\* holds no more fragments than there are counters.
C26_Phase2StackInvariant ==
    /\ [](pc = "phase2" =>
              /\ SumOf(length_stack) = Len(stack)
              /\ stack # << >> => (length_stack # << >> /\ Last(length_stack) > 0)
              /\ \A i \in DOMAIN length_stack : length_stack[i] >= 0
              /\ Len(prefixes) <= Len(length_stack))
    /\ [][(pc = "phase2" /\ pc' = "done") => (stack = << >> /\ stack' = << >>)]_vars

\* The emission loop is at the start of an iteration with three counters,
\* the middle one exhausted: a further root and a grandchild of the first
\* root are on the emission stack.
C26_Witness ==
    /\ pc = "phase2"
    /\ length_stack = <<1, 0, 1>>
    /\ Len(stack) = 2
    /\ Len(prefixes) = 2
    /\ Len(data) = 2

(***************************************************************************)
(* The rows of a tree refresh as a walk of the shown forest.               *)
(***************************************************************************)
\* Row j is the row of a proper descendant of the record of row i.
RowBelow(i, j) == table_data[j].pid \in Descendants(table_data[i].pid)

\* C27: the rows of a tree refresh are the shown records that have no
\* collapsed proper ancestor, one row each; the row of a record comes before
\* the rows of its descendants; and every row between the row of a record
\* and the row of one of its descendants is the row of a descendant of the
\* record too.
C27_DepthFirstPreOrder ==
    (pc = "done" /\ mode = "Tree") =>
        /\ RowPids(table_data) = ExpectedRowPids
        /\ Cardinality(RowPids(table_data)) = Len(table_data)
        /\ \A i, j \in DOMAIN table_data :
               RowBelow(i, j)
               => /\ i < j
                  /\ \A k \in DOMAIN table_data : (i < k /\ k < j) => RowBelow(i, k)

\* A refresh has stored three rows of four shown records: a root, its child
\* and a further root; the child is collapsed and hides a child of its own.
C27_Witness ==
    /\ pc = "done"
    /\ mode = "Tree"
    /\ Len(table_data) = 3
    /\ Cardinality(ShownPids) = 4
    /\ RowBelow(1, 2)
    /\ table_data[2].pid \in collapsed_pids
    /\ HiddenByCollapse \cap Descendants(table_data[2].pid) # {}
    /\ table_data[3].pid \in Roots

====
